---- MODULE Spec2Model ----
(***************************************************************************)
(* revaultd: the bitcoind interface (src/daemon/bitcoind/interface.rs).    *)
(*                                                                         *)
(* Spec       deposit reconciliation: the watchonly wallet of the node     *)
(*            changes, the poller calls sync_deposits with its known map   *)
(*            and applies the returned DepositsState to it.                *)
(* SpecUnv    unvault reconciliation with sync_unvaults.                   *)
(* SpecRpc    one logical RPC call: make_request's retry loop and          *)
(*            handle_error's classification, with a millisecond clock.     *)
(***************************************************************************)
EXTENDS Integers, Sequences, FiniteSets, TLC

(***************************************************************************)
(* Bounds of the model.                                                    *)
(***************************************************************************)
\* number of distinct outpoints the wallet may hold
NumOutpoints == 2
\* largest confirmation count the node reports
MaxConfs == 2
\* consecutive passes over one node state that are told apart
MaxPasses == 3
\* longest time one send_request takes, in clock steps (the socket timeout
\* of RPC_SOCKET_TIMEOUT seconds is the real limit)
MaxSendTicks == 3
\* send_request calls of one make_request that are counted
MaxSends == 3
\* requests of one batch (reqs.len() of make_requests)
MaxBatch == 3
\* entries of a listsinceblock answer, and the txids they name
MaxTxs == 2
\* requests the control thread sends to the hub
MaxRequests == 3
\* descriptors of one bulk import (descriptors.len())
MaxDescriptors == 3

(***************************************************************************)
(* Program constants.                                                      *)
(***************************************************************************)
\* revault_tx::transactions::DUST_LIMIT (sats)
DUST_LIMIT == 200000
\* revault_tx::transactions::UNVAULT_CPFP_VALUE (sats)
UNVAULT_CPFP_VALUE == 30000
\* bitcoin::blockdata::constants::COIN_VALUE (sats in one BTC)
COIN_VALUE == 100000000
\* const MIN_DEPOSIT_VALUE: u64 (u64 arithmetic, no overflow for these values)
MIN_DEPOSIT_VALUE == ((DUST_LIMIT + UNVAULT_CPFP_VALUE) * 105) \div 100

DEPOSIT_UTXOS_LABEL == "revault-deposit"
UNVAULT_UTXOS_LABEL == "revault-unvault"
\* a listunspent entry of an address without label carries no "label" field
NoLabel == "no-label"
Labels == {DEPOSIT_UTXOS_LABEL, UNVAULT_UTXOS_LABEL, NoLabel}

(***************************************************************************)
(* Outpoints: (txid, vout).  Outpoint number i is output (i+1)%2 of        *)
(* transaction (i+1)\div 2, so that two outpoints may share a txid.        *)
(***************************************************************************)
OutPoint(i) == [txid |-> (i + 1) \div 2, vout |-> (i + 1) % 2]
OutpointIds == 1..NumOutpoints
Outpoints == {OutPoint(i) : i \in OutpointIds}

\* The value of an output is fixed by its outpoint (a txid commits to the
\* outputs of its transaction): odd outpoints are worth exactly the deposit
\* floor, even ones one satoshi less.
AmountOf(i) == IF i % 2 = 1 THEN MIN_DEPOSIT_VALUE ELSE MIN_DEPOSIT_VALUE - 1

VARIABLES
    wallet,          \* node: the unspent outputs of the watchonly wallet,
                     \*   outpoint id -> [label, confirmations, amount (sats)]
    pc,              \* poller: "idle" | "synced" (a returned delta waits to be applied)
    min_conf,        \* the poller's min_conf argument
    deposits_utxos,  \* poller: known deposits, OutPoint -> UtxoInfo
    deposits_state,  \* the DepositsState returned by the running pass
    prev_state,      \* the DepositsState of the pass before, if the node did not
                     \*   change since
    passes,          \* sync_deposits calls since the node last changed (capped)
    seen_unconf,     \* outpoints an earlier pass reported in new_unconf
    conf_reports,    \* outpoint -> the times a pass reported it in new_conf since
                     \*   a pass last reported it spent (capped at 2)
                     \*   (and no pass reported spent since)
    unvault_utxos,   \* poller: known unvaults, OutPoint -> UtxoInfo
    unvaults_state,  \* the outcome of the last sync_unvaults
    rpc_pc,          \* make_request: "send" | "handle" | "returned" | "failed"
    clock,           \* Instant::now(), in ms
    start,           \* make_request's `start`
    pending,         \* the jsonrpc::Error handle_error is called with
    sends,           \* send_request calls made by this make_request (capped)
    last_sleep,      \* ms slept by the last handle_error that returned Ok(())
    first_err_at,    \* ms after start at which the first send failed, -1 if none
    kinds_seen,      \* the kind of the failures of this call so far, every kind
                     \*   once they were of more than one
    rpc_result,      \* what make_request returned
    rpc_code,        \* the code of the RpcError in `pending` or in the returned
                     \*   error, 0 if that is no RpcError
    retry_at,        \* ms after start at which handle_error last returned
                     \*   Ok(()), -1 if it never did
    batch_n,         \* make_requests: reqs.len(), 0 when no batch is modelled
    batch_reply,     \* make_requests: the Vec<Option<Response>> send_batch
                     \*   returned, <<>> before it did
    lk_fn,           \* the lookup called: "none" | "is_in_mempool" | "is_current"
                     \*   | "get_spender_txid"
    lk_done,         \* the lookup returned
    lk_tx,           \* node: what it knows of the transaction looked up
    lk_txs,          \* node: the 'transactions' of its listsinceblock answer
    lk_vin,          \* node: txid -> the outpoints that transaction spends
    lk_spent,        \* get_spender_txid's spent_outpoint (an outpoint id)
    lk_fault,        \* the request of the lookup that fails, and how
    lk_requests,     \* requests the lookup sent
    lk_out,          \* what the lookup returned
    hub_pc,          \* daemon_main: where the hub is in its loop
    current,         \* the RpcMessageIn the hub is handling
    rpc_queue,       \* the messages in the channel rpc_tx -> rpc_rx
    ctl_sent,        \* messages the control thread has sent
    jsonrpc_thread,  \* "running" | "failing" | "finished" | "panicked"
    bitcoind_thread, \* "running" | "failing" | "finished" | "panicked"
    bitcoind_queue,  \* the messages in the channel bitcoind_tx -> bitcoind_rx
    bitrep,          \* the rendezvous channel of the SyncProgress in progress:
                     \*   "none" | "waiting" | "replied" | "dropped"
    hub_done,        \* the steps of the Shutdown arm the hub completed
    served,          \* the ids of the messages the hub dequeued, in order
    answered,        \* the ids of the messages the hub replied to, in order
    exit_status,     \* the exit status of the process, -1 while it runs
    exit_by,         \* "none" | "shutdown" | "hub_failure" | "worker" | "main_return"
    vaults,          \* revaultd.vaults: outpoint id -> Vault, NoVault when absent
    vault_lock,      \* the RwLock around revaultd: its writer and its readers
    node_rpcs,       \* the threads with a request to bitcoind in flight
    lv_filter,       \* the (status, outpoints) filters of the ListVaults handled
    lv_reply,        \* resp of the ListVaults arm
    vt_result,       \* what the last vault transition returned
    node_answer,     \* node: the 'listunspent' answer a call is checked against
    imp_pc,          \* bulk_import_descriptors: "none" | "called" | "sent" | "returned"
    imp_args,        \* its arguments (the descriptors are numbered 1..descriptors)
    imp_request,     \* all_descriptors, the parameter of 'importdescriptors'
    imp_answer,      \* what make_request returned for 'importdescriptors'
    imp_out          \* what bulk_import_descriptors returned

nodevars == <<wallet>>
depvars == <<min_conf, deposits_utxos, deposits_state, prev_state, passes, seen_unconf,
             conf_reports>>
unvvars == <<unvault_utxos, unvaults_state>>
rpcvars == <<rpc_pc, clock, start, pending, sends, last_sleep, first_err_at,
             kinds_seen, rpc_result, rpc_code, retry_at>>
batchvars == <<batch_n, batch_reply>>
lkvars == <<lk_fn, lk_done, lk_tx, lk_txs, lk_vin, lk_spent, lk_fault, lk_requests,
            lk_out>>
hubvars == <<hub_pc, current, rpc_queue, ctl_sent, jsonrpc_thread, bitcoind_thread,
             bitcoind_queue, bitrep, hub_done, served, answered, exit_status,
             exit_by>>
sharedvars == <<vaults, vault_lock, node_rpcs, lv_filter, lv_reply, vt_result>>
\* what the reconciliation steps leave alone
importvars == <<imp_pc, imp_args, imp_request, imp_answer, imp_out>>
callvars == <<rpcvars, batchvars, lkvars, hubvars, sharedvars, node_answer, importvars>>
vars == <<wallet, pc, min_conf, deposits_utxos, deposits_state, prev_state, passes,
          seen_unconf, conf_reports, unvault_utxos, unvaults_state,
          rpcvars, batch_n, batch_reply, lkvars, hubvars, sharedvars, node_answer,
          importvars>>

(***************************************************************************)
(* HashMap helpers.                                                        *)
(***************************************************************************)
EmptyMap == [k \in {} |-> 0]
MapRemove(m, k) == [x \in DOMAIN m \ {k} |-> m[x]]
MapInsert(m, k, v) == [x \in DOMAIN m \cup {k} |-> IF x = k THEN v ELSE m[x]]

UtxoInfo(value, is_confirmed) == [value |-> value, is_confirmed |-> is_confirmed]

NoDelta == [new_unconf |-> EmptyMap, new_conf |-> EmptyMap, new_spent |-> EmptyMap]

\* no outpoint was reported confirmed
NoReports == [o \in Outpoints |-> 0]
\* the reports once a pass returned new_conf and new_spent
count_reports(reports, new_conf, new_spent) ==
    [o \in Outpoints |->
        IF o \in DOMAIN new_spent THEN 0
        ELSE IF o \in DOMAIN new_conf
             THEN (IF reports[o] < 2 THEN reports[o] + 1 ELSE reports[o])
             ELSE reports[o]]

(***************************************************************************)
(* The node.  listunspent answers with one entry per unspent output of the *)
(* wallet (never two for one outpoint) that has at least minconf           *)
(* confirmations and is worth at least minimumAmount BTC.  An amount       *)
(* travels as a decimal number of BTC with 8 decimals, written here        *)
(* [btc |-> whole coins, frac |-> 1e-8 units below one coin].  An entry    *)
(* names the fields it lacks (missing) and those it carries with another   *)
(* JSON type than bitcoind's (mistyped); the entries of a node that speaks *)
(* the expected API lack none, apart from the label of an unlabelled       *)
(* address.                                                                *)
(***************************************************************************)
btc_amount(sats) == [btc |-> sats \div COIN_VALUE, frac |-> sats % COIN_VALUE]

\* amount >= minimumAmount, minimumAmount a whole number of BTC
amount_at_least(amount, minimumAmount) == amount.btc >= minimumAmount

RECURSIVE listunspent_from(_, _, _, _)
listunspent_from(w, i, minconf, minimumAmount) ==
    IF i > NumOutpoints THEN << >>
    ELSE LET rest == listunspent_from(w, i + 1, minconf, minimumAmount) IN
         IF /\ i \in DOMAIN w
            /\ w[i].confirmations >= minconf
            /\ amount_at_least(btc_amount(w[i].amount), minimumAmount)
         THEN << [txid |-> OutPoint(i).txid, vout |-> OutPoint(i).vout,
                  label |-> w[i].label,
                  confirmations |-> w[i].confirmations,
                  amount |-> btc_amount(w[i].amount),
                  missing |-> {}, mistyped |-> {}] >> \o rest
         ELSE rest

listunspent(w, minconf, minimumAmount) == listunspent_from(w, 1, minconf, minimumAmount)

(***************************************************************************)
(* sync_deposits                                                           *)
(***************************************************************************)
\* "minimumAmount": MIN_DEPOSIT_VALUE / COIN_VALUE -- a division of two u64,
\* whose integer quotient is the number of BTC sent to the node.
minimum_amount == MIN_DEPOSIT_VALUE \div COIN_VALUE

\* the request of sync_deposits: minconf 0, query_options.minimumAmount
deposits_listunspent(w) == listunspent(w, 0, minimum_amount)

\* if utxo.get("label") != Some(&label_json) { continue; }
is_deposit_entry(utxo) == utxo.label = DEPOSIT_UTXOS_LABEL

\* utxo.get(field).ok_or_else(..)?.as_u64().ok_or_else(..)? and alike: the
\* field is there, with the JSON type asked for
has_valid(utxo, field) == field \notin utxo.missing /\ field \notin utxo.mistyped

\* outpoint_from_utxo(&utxo) is Ok
has_outpoint(utxo) == has_valid(utxo, "txid") /\ has_valid(utxo, "vout")

outpoint_from_utxo(utxo) == [txid |-> utxo.txid, vout |-> utxo.vout]

\* Err(BitcoindError::Custom("API break, .."))
ApiBreak == [error |-> "Custom"]

\* Amount::from_btc(amount).as_sat()
amount_as_sat(amount) == amount.btc * COIN_VALUE + amount.frac

\* mutant: a strict comparison with min_conf
becomes_confirmed_strict(info, confirmations, m) ==
    ~info.is_confirmed /\ confirmations > m

\* mutant: the is_confirmed flag of the known utxo is not looked at
becomes_confirmed_again(info, confirmations, m) ==
    confirmations >= m

\* !utxo.is_confirmed && confirmations >= min_conf as u64
becomes_confirmed(info, confirmations, m) ==
    ~info.is_confirmed /\ confirmations >= m

\* mutant: the possibly-spent set starts empty
sync_deposits_seed_empty(known) ==
    [new_utxos |-> EmptyMap, confirmed_utxos |-> EmptyMap, spent_utxos |-> EmptyMap,
     error |-> "none"]

\* (HashMap::new(), HashMap::new()) and spent_utxos = deposits_utxos.clone()
\* error: the Err a `?` of the loop returned with, "none" while there is none
sync_deposits_seed(known) ==
    [new_utxos |-> EmptyMap, confirmed_utxos |-> EmptyMap, spent_utxos |-> known,
     error |-> "none"]

\* mutant: get() instead of remove(), the seen utxo stays possibly spent
known_utxo_step_keep(st, outpoint, confirmations, m) ==
    LET info == st.spent_utxos[outpoint] IN
    [st EXCEPT !.confirmed_utxos =
                   IF ~info.is_confirmed /\ confirmations >= m
                   THEN MapInsert(@, outpoint, info) ELSE @]

\* if let Some(utxo) = spent_utxos.remove(&outpoint) { ...; continue; }
known_utxo_step(st, outpoint, confirmations, m) ==
    LET info == st.spent_utxos[outpoint] IN
    [st EXCEPT !.spent_utxos = MapRemove(@, outpoint),
               !.confirmed_utxos =
                   IF becomes_confirmed(info, confirmations, m)
                   THEN MapInsert(@, outpoint, info) ELSE @]

\* mutant: a new utxo takes its flag from the node's confirmation count
new_utxo_info_by_count(utxo) ==
    UtxoInfo(utxo.amount.btc * COIN_VALUE + utxo.amount.frac, utxo.confirmations > 0)

\* UtxoInfo { txo: TxOut { value, .. }, is_confirmed: false }
new_utxo_info(utxo) == UtxoInfo(amount_as_sat(utxo.amount), FALSE)

\* mutant: a new utxo the node reports confirmed is promoted at once
new_utxo_step_promote(st, outpoint, utxo) ==
    [st EXCEPT !.new_utxos = MapInsert(@, outpoint, UtxoInfo(0, FALSE)),
               !.confirmed_utxos =
                   IF utxo.confirmations > 0
                   THEN MapInsert(@, outpoint, UtxoInfo(0, FALSE)) ELSE @]

\* mutant: a deposit that is not known yet is not inserted in new_utxos
new_utxo_step_drop(st, outpoint, utxo) == st

\* new_utxos.insert(outpoint, UtxoInfo {..})
new_utxo_step(st, outpoint, utxo) ==
    [st EXCEPT !.new_utxos = MapInsert(@, outpoint, new_utxo_info(utxo))]

\* the for loop over the entries of the answer, from entry i on; a `?` on a
\* field that is missing or mistyped returns from sync_deposits
RECURSIVE sync_deposits_loop(_, _, _, _)
sync_deposits_loop(list, i, st, m) ==
    IF i > Len(list) THEN st
    ELSE LET utxo == list[i] IN
         IF ~is_deposit_entry(utxo)
         THEN sync_deposits_loop(list, i + 1, st, m)
         ELSE IF ~has_valid(utxo, "confirmations") \/ ~has_outpoint(utxo)
         THEN [st EXCEPT !.error = ApiBreak.error]
         ELSE LET outpoint == outpoint_from_utxo(utxo) IN
              IF outpoint \in DOMAIN st.spent_utxos
              THEN sync_deposits_loop(list, i + 1,
                       known_utxo_step(st, outpoint, utxo.confirmations, m), m)
              ELSE IF ~has_valid(utxo, "address") \/ ~has_valid(utxo, "amount")
              THEN [st EXCEPT !.error = ApiBreak.error]
              ELSE sync_deposits_loop(list, i + 1,
                       new_utxo_step(st, outpoint, utxo), m)

\* sync_deposits(known, m) when the node answers `list`: the DepositsState,
\* or the Err of the loop
sync_deposits(known, m, list) ==
    LET st == sync_deposits_loop(list, 1, sync_deposits_seed(known), m) IN
    IF st.error # "none" THEN ApiBreak
    ELSE [new_unconf |-> st.new_utxos,
          new_conf   |-> st.confirmed_utxos,
          new_spent  |-> st.spent_utxos]

(***************************************************************************)
(* sync_unvaults                                                           *)
(***************************************************************************)
\* the request of sync_unvaults: minconf 0, no query_options
unvaults_listunspent(w) == listunspent(w, 0, 0)

\* mutant: an unvault counts as confirmed whatever its confirmation count
unvault_entry_confirmed_always(confs) == confs >= 0

\* Some((op, confs > 0))
unvault_entry_confirmed(confs) == confs > 0

\* step 1: the (outpoint, confirmed) mapping of the unvault-labelled entries,
\* from entry i on; entry.get("label").expect(..) panics on an entry that
\* has no label, the .expect(..) on the outpoint and on the confirmations
\* panic on an unvault entry that lacks them
RECURSIVE unvaults_unspent_list(_, _, _)
unvaults_unspent_list(list, i, acc) ==
    IF i > Len(list) THEN [panicked |-> FALSE, map |-> acc]
    ELSE LET entry == list[i] IN
         IF entry.label = NoLabel THEN [panicked |-> TRUE, map |-> EmptyMap]
         ELSE IF entry.label = UNVAULT_UTXOS_LABEL
              THEN IF ~has_outpoint(entry) \/ ~has_valid(entry, "confirmations")
                   THEN [panicked |-> TRUE, map |-> EmptyMap]
                   ELSE
                   unvaults_unspent_list(list, i + 1,
                       MapInsert(acc, outpoint_from_utxo(entry),
                                 unvault_entry_confirmed(entry.confirmations)))
              ELSE unvaults_unspent_list(list, i + 1, acc)

\* mutant: an unvault that is listed unconfirmed is taken for spent
unvault_transition_eager(unspent_list, op, utxo_info) ==
    IF op \in DOMAIN unspent_list /\ unspent_list[op]
    THEN IF ~utxo_info.is_confirmed THEN "conf" ELSE "none"
    ELSE "spent"

\* step 2, for one known unvault: newly confirmed, spent, or neither
unvault_transition(unspent_list, op, utxo_info) ==
    IF op \in DOMAIN unspent_list
    THEN IF unspent_list[op] /\ ~utxo_info.is_confirmed THEN "conf" ELSE "none"
    ELSE "spent"

\* sync_unvaults(known) when the node answers `list`
sync_unvaults(known, list) ==
    LET ul == unvaults_unspent_list(list, 1, EmptyMap) IN
    IF ul.panicked
    THEN [outcome |-> "panic", new_conf |-> EmptyMap, new_spent |-> EmptyMap]
    ELSE [outcome |-> "ok",
          new_conf |->
              [op \in {o \in DOMAIN known :
                          unvault_transition(ul.map, o, known[o]) = "conf"} |-> known[op]],
          new_spent |->
              [op \in {o \in DOMAIN known :
                          unvault_transition(ul.map, o, known[o]) = "spent"} |-> known[op]]]

\* the poller applies an UnvaultsState to its known map
apply_unvaults(known, u) ==
    [o \in DOMAIN known \ DOMAIN u.new_spent |->
        IF o \in DOMAIN u.new_conf
        THEN [known[o] EXCEPT !.is_confirmed = TRUE]
        ELSE known[o]]

(***************************************************************************)
(* The poller applies a DepositsState to its known map: new_unconf is      *)
(* added, new_conf is marked confirmed, new_spent is removed.              *)
(***************************************************************************)
apply_deposits(known, d) ==
    [o \in (DOMAIN known \cup DOMAIN d.new_unconf) \ DOMAIN d.new_spent |->
        IF o \in DOMAIN d.new_unconf /\ o \notin DOMAIN known THEN d.new_unconf[o]
        ELSE IF o \in DOMAIN d.new_conf
             THEN [known[o] EXCEPT !.is_confirmed = TRUE]
             ELSE known[o]]

(***************************************************************************)
(* The node's wallet changes between two polls.                            *)
(***************************************************************************)
\* a change of the node ends the run of passes over one node state
NodeChanged ==
    /\ pc = "idle"
    /\ pc' = pc
    /\ passes' = 0
    /\ prev_state' = NoDelta
    /\ UNCHANGED <<min_conf, deposits_utxos, deposits_state, seen_unconf,
                   conf_reports>>
    /\ UNCHANGED unvvars
    /\ UNCHANGED callvars

\* the wallet receives an output (0 confirmations)
NodeReceive(i, label) ==
    /\ i \notin DOMAIN wallet
    /\ wallet' = MapInsert(wallet, i,
                    [label |-> label, confirmations |-> 0, amount |-> AmountOf(i)])
    /\ NodeChanged

\* a block confirms the output once more
NodeConfirm(i) ==
    /\ i \in DOMAIN wallet
    /\ wallet[i].confirmations < MaxConfs
    /\ wallet' = [wallet EXCEPT ![i].confirmations = @ + 1]
    /\ NodeChanged

\* a reorganisation sends the output back to the mempool
NodeReorg(i) ==
    /\ i \in DOMAIN wallet
    /\ wallet[i].confirmations > 0
    /\ wallet' = [wallet EXCEPT ![i].confirmations = 0]
    /\ NodeChanged

\* the output is spent: it leaves the unspent list
NodeSpend(i) ==
    /\ i \in DOMAIN wallet
    /\ wallet' = MapRemove(wallet, i)
    /\ NodeChanged

(***************************************************************************)
(* Deposit reconciliation as a state machine.                              *)
(***************************************************************************)
NoFault == [call |-> 0, kind |-> "none", code |-> 0]
NoAnswer == [ok |-> FALSE, answer |-> FALSE, spender |-> 0, error |-> "none", code |-> 0]
\* no lookup is modelled
LookupUnused ==
    /\ lk_fn = "none"
    /\ lk_done = FALSE
    /\ lk_tx = "unknown"
    /\ lk_txs = << >>
    /\ lk_vin = << >>
    /\ lk_spent = 1
    /\ lk_fault = NoFault
    /\ lk_requests = 0
    /\ lk_out = NoAnswer

\* no single RPC call is modelled
RpcUnused ==
    /\ rpc_pc = "returned"
    /\ clock = 0
    /\ start = 0
    /\ pending = "none"
    /\ sends = 0
    /\ last_sleep = 0
    /\ first_err_at = -1
    /\ kinds_seen = {}
    /\ rpc_result = [ok |-> TRUE, error |-> "none"]
    /\ rpc_code = 0
    /\ retry_at = -1
\* no batch call is modelled
BatchUnused ==
    /\ batch_n = 0
    /\ batch_reply = << >>
NoMessage == [type |-> "none", id |-> 0]
\* the threads of daemon_main are not modelled
HubUnused ==
    /\ hub_pc = "recv"
    /\ current = NoMessage
    /\ rpc_queue = << >>
    /\ ctl_sent = 0
    /\ jsonrpc_thread = "running"
    /\ bitcoind_thread = "running"
    /\ bitcoind_queue = << >>
    /\ bitrep = "none"
    /\ hub_done = << >>
    /\ served = << >>
    /\ answered = << >>
    /\ exit_status = -1
    /\ exit_by = "none"
NoVault == [status |-> "none", updated_at |-> 0, txs |-> {}]
Unlocked == [writer |-> "none", readers |-> {}]
\* Option<Vec<..>>: None, or Some of the outpoints listed
None == [some |-> FALSE, of |-> {}]
Some(set) == [some |-> TRUE, of |-> set]
NoFilter == [status |-> "none", outpoints |-> None]
NoResult == [call |-> [outpoint |-> 0, required |-> "none", next |-> "none"],
             result |-> [ok |-> TRUE, error |-> "none"]]
\* the shared RevaultD: no vault, nobody holds the lock, no request in flight
SharedUnused ==
    /\ vaults = [i \in OutpointIds |-> NoVault]
    /\ vault_lock = Unlocked
    /\ node_rpcs = {}
    /\ lv_filter = NoFilter
    /\ lv_reply = {}
    /\ vt_result = NoResult
\* no answer of the node is given: the answers are those of the wallet
AnswerUnused == node_answer = << >>

NoImport == [descriptors |-> 0, timestamp |-> 0, label |-> "none",
             fresh_wallet |-> FALSE, active |-> FALSE]
NoImportAnswer == [ok |-> FALSE, error |-> "none", results |-> << >>]
NoImportResult == [ok |-> FALSE, error |-> "none"]
ImportUnused ==
    /\ imp_pc = "none"
    /\ imp_args = NoImport
    /\ imp_request = << >>
    /\ imp_answer = NoImportAnswer
    /\ imp_out = NoImportResult
\* the reconciliation specifications model no call
CallsUnused ==
    /\ RpcUnused
    /\ BatchUnused
    /\ LookupUnused
    /\ HubUnused
    /\ SharedUnused
    /\ AnswerUnused
    /\ ImportUnused
Init ==
    /\ wallet = EmptyMap
    /\ pc = "idle"
    /\ min_conf \in 0..MaxConfs
    /\ deposits_utxos = EmptyMap
    /\ deposits_state = NoDelta
    /\ prev_state = NoDelta
    /\ passes = 0
    /\ seen_unconf = {}
    /\ conf_reports = NoReports
    /\ unvault_utxos = EmptyMap
    /\ unvaults_state = [outcome |-> "none", new_conf |-> EmptyMap, new_spent |-> EmptyMap]
    /\ CallsUnused

\* one call of sync_deposits(&deposits_utxos, min_conf)
SyncDeposits ==
    /\ pc = "idle"
    /\ deposits_state' = sync_deposits(deposits_utxos, min_conf,
                                       deposits_listunspent(wallet))
    /\ seen_unconf' = (seen_unconf \cup DOMAIN deposits_state'.new_unconf)
                          \ DOMAIN deposits_state'.new_spent
    /\ conf_reports' = count_reports(conf_reports, deposits_state'.new_conf,
                                     deposits_state'.new_spent)
    /\ passes' = IF passes < MaxPasses THEN passes + 1 ELSE passes
    /\ pc' = "synced"
    /\ UNCHANGED <<wallet, min_conf, deposits_utxos, prev_state>>
    /\ UNCHANGED unvvars
    /\ UNCHANGED callvars

\* the poller applies the delta and drops it
ApplyDeposits ==
    /\ pc = "synced"
    /\ deposits_utxos' = apply_deposits(deposits_utxos, deposits_state)
    /\ prev_state' = deposits_state
    /\ deposits_state' = NoDelta
    /\ pc' = "idle"
    /\ UNCHANGED <<wallet, min_conf, passes, seen_unconf, conf_reports>>
    /\ UNCHANGED unvvars
    /\ UNCHANGED callvars

Next ==
    \/ \E i \in OutpointIds, label \in Labels : NodeReceive(i, label)
    \/ \E i \in OutpointIds : NodeConfirm(i)
    \/ \E i \in OutpointIds : NodeReorg(i)
    \/ \E i \in OutpointIds : NodeSpend(i)
    \/ SyncDeposits
    \/ ApplyDeposits

Spec == Init /\ [][Next]_vars

(***************************************************************************)
(* Unvault reconciliation as a state machine, from any known map.          *)
(***************************************************************************)
NoUnvaultsState == [outcome |-> "none", new_conf |-> EmptyMap, new_spent |-> EmptyMap]

\* every map from some outpoints to a UtxoInfo
KnownMaps ==
    UNION {[S -> {UtxoInfo(MIN_DEPOSIT_VALUE, c) : c \in BOOLEAN}] : S \in SUBSET Outpoints}

InitUnv ==
    /\ wallet = EmptyMap
    /\ pc = "idle"
    /\ min_conf = 0
    /\ deposits_utxos = EmptyMap
    /\ deposits_state = NoDelta
    /\ prev_state = NoDelta
    /\ passes = 0
    /\ seen_unconf = {}
    /\ conf_reports = NoReports
    /\ unvault_utxos \in KnownMaps
    /\ unvaults_state = NoUnvaultsState
    /\ CallsUnused

\* one call of sync_unvaults(&unvault_utxos); a panic ends the thread
SyncUnvaults ==
    /\ pc = "idle"
    /\ unvaults_state' = sync_unvaults(unvault_utxos, unvaults_listunspent(wallet))
    /\ conf_reports' = count_reports(conf_reports, unvaults_state'.new_conf,
                                     unvaults_state'.new_spent)
    /\ pc' = IF unvaults_state'.outcome = "ok" THEN "unv_synced" ELSE "panicked"
    /\ UNCHANGED <<wallet, unvault_utxos>>
    /\ UNCHANGED <<min_conf, deposits_utxos, deposits_state, prev_state, passes,
                   seen_unconf>>
    /\ UNCHANGED callvars

\* the poller applies the delta and drops it
ApplyUnvaults ==
    /\ pc = "unv_synced"
    /\ unvault_utxos' = apply_unvaults(unvault_utxos, unvaults_state)
    /\ unvaults_state' = NoUnvaultsState
    /\ pc' = "idle"
    /\ UNCHANGED wallet
    /\ UNCHANGED depvars
    /\ UNCHANGED callvars

NextUnv ==
    \/ \E i \in OutpointIds, label \in Labels : NodeReceive(i, label)
    \/ \E i \in OutpointIds : NodeConfirm(i)
    \/ \E i \in OutpointIds : NodeReorg(i)
    \/ \E i \in OutpointIds : NodeSpend(i)
    \/ SyncUnvaults
    \/ ApplyUnvaults

SpecUnv == InitUnv /\ [][NextUnv]_vars

(***************************************************************************)
(* The two reconciliations against any answer of the node: from any known  *)
(* map, one call of sync_deposits or of sync_unvaults on a 'listunspent'   *)
(* answer with one entry at most per outpoint, any label, and at most one  *)
(* entry that lacks a field or carries it with the wrong type.             *)
(***************************************************************************)
NoDefect == [field |-> "none", how |-> "none"]
Defects ==
    {[field |-> f, how |-> "missing"] :
        f \in {"confirmations", "txid", "address", "amount"}}
      \cup {[field |-> "confirmations", how |-> "mistyped"]}

\* the entry of outpoint i in an answer
AnswerEntry(i, label, confirmations, defect) ==
    [txid |-> OutPoint(i).txid, vout |-> OutPoint(i).vout, label |-> label,
     confirmations |-> confirmations, amount |-> btc_amount(AmountOf(i)),
     missing |-> IF defect.how = "missing" THEN {defect.field} ELSE {},
     mistyped |-> IF defect.how = "mistyped" THEN {defect.field} ELSE {}]

Unlisted == [listed |-> FALSE]
\* what an answer holds for one outpoint: nothing, or an entry
EntryChoices ==
    {Unlisted} \cup
    {[listed |-> TRUE, label |-> l, confirmations |-> c, defect |-> d] :
        l \in Labels, c \in {0, MaxConfs}, d \in {NoDefect} \cup Defects}

AnswerChoices ==
    {f \in [OutpointIds -> EntryChoices] :
        Cardinality({i \in OutpointIds : f[i].listed /\ f[i].defect # NoDefect}) <= 1}

RECURSIVE answer_from(_, _)
answer_from(f, i) ==
    IF i > NumOutpoints THEN << >>
    ELSE IF f[i].listed
         THEN << AnswerEntry(i, f[i].label, f[i].confirmations, f[i].defect) >>
                \o answer_from(f, i + 1)
         ELSE answer_from(f, i + 1)

InitAnswer ==
    /\ wallet = EmptyMap
    /\ pc = "idle"
    /\ min_conf = MaxConfs
    /\ \/ deposits_utxos \in KnownMaps /\ unvault_utxos = EmptyMap
       \/ deposits_utxos = EmptyMap /\ unvault_utxos \in KnownMaps
    /\ deposits_state = NoDelta
    /\ prev_state = NoDelta
    /\ passes = 0
    /\ seen_unconf = {}
    /\ conf_reports = NoReports
    /\ unvaults_state = NoUnvaultsState
    /\ RpcUnused
    /\ BatchUnused
    /\ LookupUnused
    /\ HubUnused
    /\ SharedUnused
    /\ ImportUnused
    /\ \E f \in AnswerChoices : node_answer = answer_from(f, 1)

\* one call of sync_deposits(&deposits_utxos, min_conf) on the answer
AnswerSyncDeposits ==
    /\ pc = "idle"
    /\ deposits_state' = sync_deposits(deposits_utxos, min_conf, node_answer)
    /\ pc' = IF deposits_state' = ApiBreak THEN "failed" ELSE "synced"
    /\ conf_reports' = IF deposits_state' = ApiBreak THEN conf_reports
                       ELSE count_reports(conf_reports, deposits_state'.new_conf,
                                          deposits_state'.new_spent)
    /\ UNCHANGED <<wallet, node_answer, min_conf, deposits_utxos, prev_state, passes,
                   seen_unconf>>
    /\ UNCHANGED unvvars
    /\ UNCHANGED <<rpcvars, batchvars, lkvars, hubvars, sharedvars, importvars>>

\* one call of sync_unvaults(&unvault_utxos) on the answer
AnswerSyncUnvaults ==
    /\ pc = "idle"
    /\ unvaults_state' = sync_unvaults(unvault_utxos, node_answer)
    /\ conf_reports' = count_reports(conf_reports, unvaults_state'.new_conf,
                                     unvaults_state'.new_spent)
    /\ pc' = IF unvaults_state'.outcome = "ok" THEN "unv_synced" ELSE "panicked"
    /\ UNCHANGED <<wallet, node_answer, unvault_utxos>>
    /\ UNCHANGED <<min_conf, deposits_utxos, deposits_state, prev_state, passes,
                   seen_unconf>>
    /\ UNCHANGED <<rpcvars, batchvars, lkvars, hubvars, sharedvars, importvars>>

NextAnswer ==
    \/ AnswerSyncDeposits
    \/ AnswerSyncUnvaults

SpecAnswer == InitAnswer /\ [][NextAnswer]_vars

(***************************************************************************)
(* The RPC transport: make_request and handle_error.  Time is in ms.       *)
(***************************************************************************)
\* if now.duration_since(start) > Duration::from_secs(1), HttpParseError
PARSE_ERROR_WINDOW_MS == 1000
\* std::thread::sleep(Duration::from_secs(1)), HttpParseError
PARSE_ERROR_SLEEP_MS == 1000
\* if now.duration_since(start) > Duration::from_secs(45)
TRANSPORT_WINDOW_MS == 45000
\* std::thread::sleep(Duration::from_secs(1))
TRANSPORT_SLEEP_MS == 1000
\* if now.duration_since(start) > Duration::from_secs(1), Json
JSON_WINDOW_MS == 1000
\* std::thread::sleep(Duration::from_millis(500))
JSON_SLEEP_MS == 500
\* one step of the clock: the shortest of the durations above
TickMs == JSON_SLEEP_MS

\* jsonrpc::Error::Transport, by the simple_http::Error inside ("OtherTransport":
\* any other one, or a transport error that is no simple_http::Error)
TransportKinds == {"InvalidUrl", "SocketError", "HttpParseError", "OtherTransport"}
\* jsonrpc::Error: Transport(..), Json(..), Rpc(..) and the remaining variants
ErrorKinds == TransportKinds \cup {"Json", "Rpc", "OtherJsonRpc"}

\* the RpcError codes a node answers with: "not found" and one other
RPC_INVALID_ADDRESS_OR_KEY == -5
RPC_VERIFY_ERROR == RPC_INVALID_ADDRESS_OR_KEY - 20
RpcCodes == {RPC_INVALID_ADDRESS_OR_KEY, RPC_VERIFY_ERROR}

Fatal == [fatal |-> TRUE, sleep |-> 0]
Retry(ms) == [fatal |-> FALSE, sleep |-> ms]

\* `let any_err = err as &dyn Any` for `ref err` of Error::Transport: err is
\* a &Box<dyn Error + Send + Sync>, so the value behind the &dyn Any is the
\* Box, whatever the error in it
any_type_of(kind) == "Box<dyn Error + Send + Sync>"

\* any_err.downcast_ref::<HttpError>() is Some(http_err)
downcast_is_http_error(kind) == any_type_of(kind) = "HttpError"

\* `if let Some(http_err) = any_err.downcast_ref::<HttpError>() { match
\* http_err { InvalidUrl | SocketError => return Err, HttpParseError => ..,
\* _ => {} } }`: fatal, or the ms slept before the common transport code
http_error_check(kind, elapsed) ==
    IF ~downcast_is_http_error(kind) THEN Retry(0)
    ELSE IF kind \in {"InvalidUrl", "SocketError"} THEN Fatal
    ELSE IF kind = "HttpParseError"
         THEN IF elapsed > PARSE_ERROR_WINDOW_MS THEN Fatal
              ELSE Retry(PARSE_ERROR_SLEEP_MS)
         ELSE Retry(0)

\* handle_error with the 45s check of the Transport arm taken at `>=`
handle_error_closed_transport_window(kind, elapsed) ==
    IF kind \in TransportKinds
    THEN LET first == http_error_check(kind, elapsed) IN
         IF first.fatal THEN Fatal
         ELSE IF elapsed >= TRANSPORT_WINDOW_MS THEN Fatal
              ELSE Retry(first.sleep + TRANSPORT_SLEEP_MS)
    ELSE IF kind = "Json"
         THEN IF elapsed > JSON_WINDOW_MS THEN Fatal ELSE Retry(JSON_SLEEP_MS)
         ELSE Fatal

\* handle_error whose Json arm sleeps as long as the Transport arm
handle_error_json_slow_retry(kind, elapsed) ==
    IF kind \in TransportKinds
    THEN LET first == http_error_check(kind, elapsed) IN
         IF first.fatal THEN Fatal
         ELSE IF elapsed > TRANSPORT_WINDOW_MS THEN Fatal
              ELSE Retry(first.sleep + TRANSPORT_SLEEP_MS)
    ELSE IF kind = "Json"
         THEN IF elapsed > JSON_WINDOW_MS THEN Fatal ELSE Retry(TRANSPORT_SLEEP_MS)
         ELSE Fatal

\* handle_error whose catch-all arm retries an RpcError like a Json failure
handle_error_retry_rpc(kind, elapsed) ==
    IF kind \in TransportKinds
    THEN LET first == http_error_check(kind, elapsed) IN
         IF first.fatal THEN Fatal
         ELSE IF elapsed > TRANSPORT_WINDOW_MS THEN Fatal
              ELSE Retry(first.sleep + TRANSPORT_SLEEP_MS)
    ELSE IF kind \in {"Json", "Rpc"}
         THEN IF elapsed > JSON_WINDOW_MS THEN Fatal ELSE Retry(JSON_SLEEP_MS)
         ELSE Fatal

\* handle_error whose Json arm keeps retrying for twice its window
handle_error_json_double_window(kind, elapsed) ==
    IF kind \in TransportKinds
    THEN LET first == http_error_check(kind, elapsed) IN
         IF first.fatal THEN Fatal
         ELSE IF elapsed > TRANSPORT_WINDOW_MS THEN Fatal
              ELSE Retry(first.sleep + TRANSPORT_SLEEP_MS)
    ELSE IF kind = "Json"
         THEN IF elapsed > JSON_WINDOW_MS + JSON_WINDOW_MS THEN Fatal
              ELSE Retry(JSON_SLEEP_MS)
         ELSE Fatal

\* handle_error whose Json arm returns Ok(()) without sleeping
handle_error_json_no_sleep(kind, elapsed) ==
    IF kind \in TransportKinds
    THEN LET first == http_error_check(kind, elapsed) IN
         IF first.fatal THEN Fatal
         ELSE IF elapsed > TRANSPORT_WINDOW_MS THEN Fatal
              ELSE Retry(first.sleep + TRANSPORT_SLEEP_MS)
    ELSE IF kind = "Json"
         THEN IF elapsed > JSON_WINDOW_MS THEN Fatal ELSE Retry(0)
         ELSE Fatal

\* handle_error(e, start), `elapsed` being now.duration_since(start) for the
\* `now` read on entry: Err(..) is fatal, Ok(()) comes after `sleep` ms
handle_error(kind, elapsed) ==
    IF kind \in TransportKinds
    THEN LET first == http_error_check(kind, elapsed) IN
         IF first.fatal THEN Fatal
         ELSE IF elapsed > TRANSPORT_WINDOW_MS THEN Fatal
              ELSE Retry(first.sleep + TRANSPORT_SLEEP_MS)
    ELSE IF kind = "Json"
         THEN IF elapsed > JSON_WINDOW_MS THEN Fatal ELSE Retry(JSON_SLEEP_MS)
         ELSE Fatal

InitRpc ==
    /\ wallet = EmptyMap
    /\ pc = "idle"
    /\ min_conf = 0
    /\ deposits_utxos = EmptyMap
    /\ deposits_state = NoDelta
    /\ prev_state = NoDelta
    /\ passes = 0
    /\ seen_unconf = {}
    /\ conf_reports = NoReports
    /\ unvault_utxos = EmptyMap
    /\ unvaults_state = NoUnvaultsState
    /\ rpc_pc = "send"
    /\ clock = 0
    /\ start = 0
    /\ pending = "none"
    /\ sends = 0
    /\ last_sleep = 0
    /\ first_err_at = -1
    /\ kinds_seen = {}
    /\ rpc_result = [ok |-> FALSE, error |-> "none"]
    /\ rpc_code = 0
    /\ retry_at = -1
    /\ batch_n = 0
    /\ batch_reply = << >>
    /\ LookupUnused
    /\ HubUnused
    /\ SharedUnused
    /\ AnswerUnused
    /\ ImportUnused

NotReconciling ==
    /\ UNCHANGED <<wallet, pc, node_answer>>
    /\ UNCHANGED depvars
    /\ UNCHANGED unvvars
    /\ UNCHANGED importvars
\* a step of make_request
OnlyRpc ==
    /\ NotReconciling
    /\ UNCHANGED batchvars
    /\ UNCHANGED lkvars
    /\ UNCHANGED hubvars
    /\ UNCHANGED sharedvars

CountSend == IF sends < MaxSends THEN sends + 1 ELSE sends

\* client.send_request(req.clone()) answers after `ticks` clock steps with a
\* response whose result() is Ok: make_request returns it
SendOk(ticks) ==
    /\ rpc_pc = "send"
    /\ clock' = clock + ticks * TickMs
    /\ sends' = CountSend
    /\ rpc_pc' = "returned"
    /\ rpc_result' = [ok |-> TRUE, error |-> "none"]
    /\ UNCHANGED <<start, pending, last_sleep, first_err_at, kinds_seen, rpc_code,
                   retry_at>>
    /\ OnlyRpc

\* the response carries an RPC error: resp.result() is Err, returned by `?`
SendRpcErrorResponse(ticks) ==
    /\ rpc_pc = "send"
    /\ clock' = clock + ticks * TickMs
    /\ sends' = CountSend
    /\ rpc_pc' = "failed"
    /\ rpc_result' = [ok |-> FALSE, error |-> "Rpc"]
    /\ rpc_code' \in RpcCodes
    /\ UNCHANGED <<start, pending, last_sleep, first_err_at, kinds_seen, retry_at>>
    /\ OnlyRpc

\* send_request returns Err(e): handle_error decides
SendFails(ticks, kind) ==
    /\ rpc_pc = "send"
    /\ clock' = clock + ticks * TickMs
    /\ sends' = CountSend
    /\ pending' = kind
    /\ kinds_seen' = IF kinds_seen \subseteq {kind} THEN {kind} ELSE ErrorKinds
    /\ first_err_at' = IF first_err_at = -1 THEN clock' - start ELSE first_err_at
    /\ rpc_pc' = "handle"
    /\ IF kind = "Rpc" THEN rpc_code' \in RpcCodes ELSE rpc_code' = 0
    /\ UNCHANGED <<start, last_sleep, rpc_result, retry_at>>
    /\ OnlyRpc

\* self.handle_error(e, start)?
HandleError ==
    /\ rpc_pc = "handle"
    /\ LET h == handle_error(pending, clock - start) IN
       IF h.fatal
       THEN /\ rpc_pc' = "failed"
            /\ rpc_result' = [ok |-> FALSE, error |-> pending]
            /\ UNCHANGED <<clock, last_sleep, rpc_code, retry_at>>
       ELSE /\ rpc_pc' = "send"
            /\ clock' = clock + h.sleep
            /\ last_sleep' = h.sleep
            /\ retry_at' = clock - start
            /\ rpc_code' = 0
            /\ UNCHANGED rpc_result
    /\ pending' = "none"
    /\ UNCHANGED <<start, sends, first_err_at, kinds_seen>>
    /\ OnlyRpc

NextRpc ==
    \/ \E ticks \in 0..MaxSendTicks : SendOk(ticks)
    \/ \E ticks \in 0..MaxSendTicks : SendRpcErrorResponse(ticks)
    \/ \E ticks \in 0..MaxSendTicks, kind \in ErrorKinds : SendFails(ticks, kind)
    \/ HandleError

SpecRpc == InitRpc /\ [][NextRpc]_vars

(***************************************************************************)
(* make_requests: a batch of reqs.len() requests.  send_batch returns one  *)
(* Option<Response> per request; a present response holds a result or an  *)
(* RpcError.                                                               *)
(***************************************************************************)
Missing == [present |-> FALSE, code |-> 0]
Result == [present |-> TRUE, code |-> 0]
RpcErr(code) == [present |-> TRUE, code |-> code]
Responses == {Missing, Result} \cup {RpcErr(code) : code \in RpcCodes}
Replies(n) == [1..n -> Responses]

\* resp.into_iter().filter_map(|r| r)
present_responses(reply) == SelectSeq(reply, LAMBDA r : r.present)

\* .map(|resp| resp.result()).collect::<Result<Vec<Json>, _>>(): the first
\* Err met, if any (its position, 0 if every result is Ok)
RECURSIVE first_error_from(_, _)
first_error_from(results, k) ==
    IF k > Len(results) THEN 0
    ELSE IF results[k].code # 0 THEN k
    ELSE first_error_from(results, k + 1)
first_error(results) == first_error_from(results, 1)

\* make_requests without the comparison of res.len() with reqs.len()
make_requests_unchecked(n, reply) ==
    LET res == present_responses(reply)
        e == first_error(res) IN
    IF e # 0 THEN [ok |-> FALSE, error |-> "Rpc", code |-> res[e].code]
    ELSE [ok |-> TRUE, error |-> "none", code |-> 0]

\* the Ok(resp) arm of make_requests, for reqs.len() = n
make_requests(n, reply) ==
    LET res == present_responses(reply)
        e == first_error(res) IN
    IF e # 0 THEN [ok |-> FALSE, error |-> "Rpc", code |-> res[e].code]
    ELSE IF Len(res) # n
         THEN [ok |-> FALSE, error |-> "BatchMissingResponse", code |-> 0]
         ELSE [ok |-> TRUE, error |-> "none", code |-> 0]

\* the bookkeeping of single calls, which a batch call leaves alone
OnlyBatch ==
    /\ NotReconciling
    /\ UNCHANGED <<start, sends, last_sleep, first_err_at, kinds_seen, retry_at,
                   batch_n>>
    /\ UNCHANGED lkvars
    /\ UNCHANGED hubvars
    /\ UNCHANGED sharedvars

InitBatch ==
    /\ wallet = EmptyMap
    /\ pc = "idle"
    /\ min_conf = 0
    /\ deposits_utxos = EmptyMap
    /\ deposits_state = NoDelta
    /\ prev_state = NoDelta
    /\ passes = 0
    /\ seen_unconf = {}
    /\ conf_reports = NoReports
    /\ unvault_utxos = EmptyMap
    /\ unvaults_state = NoUnvaultsState
    /\ rpc_pc = "send"
    /\ clock = 0
    /\ start = 0
    /\ pending = "none"
    /\ sends = 0
    /\ last_sleep = 0
    /\ first_err_at = -1
    /\ kinds_seen = {}
    /\ rpc_result = [ok |-> FALSE, error |-> "none"]
    /\ rpc_code = 0
    /\ retry_at = -1
    /\ batch_n \in 1..MaxBatch
    /\ batch_reply = << >>
    /\ LookupUnused
    /\ HubUnused
    /\ SharedUnused
    /\ AnswerUnused
    /\ ImportUnused

\* client.send_batch(&reqs.clone()) answers after `ticks` clock steps with
\* Ok(reply): make_requests returns
BatchSendOk(ticks, reply) ==
    /\ rpc_pc = "send"
    /\ clock' = clock + ticks * TickMs
    /\ batch_reply' = reply
    /\ LET r == make_requests(batch_n, reply) IN
       /\ rpc_pc' = IF r.ok THEN "returned" ELSE "failed"
       /\ rpc_result' = [ok |-> r.ok, error |-> r.error]
       /\ rpc_code' = r.code
    /\ UNCHANGED pending
    /\ OnlyBatch

\* send_batch returns Err(e)
BatchSendFails(ticks, kind) ==
    /\ rpc_pc = "send"
    /\ clock' = clock + ticks * TickMs
    /\ pending' = kind
    /\ IF kind = "Rpc" THEN rpc_code' \in RpcCodes ELSE rpc_code' = 0
    /\ rpc_pc' = "handle"
    /\ UNCHANGED <<rpc_result, batch_reply>>
    /\ OnlyBatch

\* self.handle_error(e, start)?
BatchHandleError ==
    /\ rpc_pc = "handle"
    /\ LET h == handle_error(pending, clock - start) IN
       IF h.fatal
       THEN /\ rpc_pc' = "failed"
            /\ rpc_result' = [ok |-> FALSE, error |-> pending]
            /\ UNCHANGED <<clock, rpc_code>>
       ELSE /\ rpc_pc' = "send"
            /\ clock' = clock + h.sleep
            /\ rpc_code' = 0
            /\ UNCHANGED rpc_result
    /\ pending' = "none"
    /\ UNCHANGED batch_reply
    /\ OnlyBatch

NextBatch ==
    \/ \E ticks \in 0..MaxSendTicks, reply \in Replies(batch_n) :
          BatchSendOk(ticks, reply)
    \/ \E ticks \in 0..MaxSendTicks, kind \in ErrorKinds : BatchSendFails(ticks, kind)
    \/ BatchHandleError

SpecBatch == InitBatch /\ [][NextBatch]_vars

(***************************************************************************)
(* The two retry loops under fairness: a call of make_request (batch_n =   *)
(* 0) or of make_requests (batch_n > 0) whose every send returns, with a   *)
(* response or with a failure, and whose every sleep ends.                 *)
(***************************************************************************)
InitRetry == InitRpc \/ InitBatch

NextRetry ==
    \/ batch_n = 0 /\ NextRpc
    \/ batch_n > 0 /\ NextBatch

SpecRetry == InitRetry /\ [][NextRetry]_vars /\ WF_vars(NextRetry)

(***************************************************************************)
(* bulk_import_descriptors: one 'importdescriptors' request for a Vec of   *)
(* descriptors.  The node answers with one result per descriptor, each     *)
(* with a 'success' field, and an 'error' field when success is false.     *)
(***************************************************************************)
CPFP_UTXOS_LABEL == "revault-cpfp"
ImportLabels == {DEPOSIT_UTXOS_LABEL, UNVAULT_UTXOS_LABEL, CPFP_UTXOS_LABEL}

\* the "timestamp" of an entry: "now" for a fresh wallet, the number given
\* otherwise
import_timestamp(fresh_wallet, timestamp) ==
    [now |-> fresh_wallet, at |-> IF fresh_wallet THEN 0 ELSE timestamp]

\* desc_map of descriptor k
desc_map(k, args) ==
    [desc |-> k, timestamp |-> import_timestamp(args.fresh_wallet, args.timestamp),
     label |-> args.label, active |-> args.active]

\* all_descriptors: one desc_map per descriptor, in the order given
all_descriptors(args) == [k \in 1..args.descriptors |-> desc_map(k, args)]

\* the node's result for one descriptor
ImportResult(success) == [success |-> success]
\* the node's answers to a request of n descriptors
ImportAnswers(n) == [1..n -> {ImportResult(b) : b \in BOOLEAN}]

\* what bulk_import_descriptors returns for the outcome of its request: the
\* error of make_request, Ok(()) when res.get(0) has "success": true, a
\* Custom error otherwise
import_outcome(answer) ==
    IF ~answer.ok THEN [ok |-> FALSE, error |-> answer.error]
    ELSE IF Len(answer.results) >= 1 /\ answer.results[1].success
         THEN [ok |-> TRUE, error |-> "none"]
         ELSE [ok |-> FALSE, error |-> "Custom"]

OnlyImport ==
    /\ UNCHANGED <<wallet, pc, node_answer>>
    /\ UNCHANGED depvars
    /\ UNCHANGED unvvars
    /\ UNCHANGED rpcvars
    /\ UNCHANGED batchvars
    /\ UNCHANGED lkvars
    /\ UNCHANGED hubvars
    /\ UNCHANGED sharedvars

InitImport ==
    /\ wallet = EmptyMap
    /\ pc = "idle"
    /\ min_conf = 0
    /\ deposits_utxos = EmptyMap
    /\ deposits_state = NoDelta
    /\ prev_state = NoDelta
    /\ passes = 0
    /\ seen_unconf = {}
    /\ conf_reports = NoReports
    /\ unvault_utxos = EmptyMap
    /\ unvaults_state = NoUnvaultsState
    /\ RpcUnused
    /\ BatchUnused
    /\ LookupUnused
    /\ HubUnused
    /\ SharedUnused
    /\ AnswerUnused
    /\ imp_pc = "called"
    /\ imp_args \in [descriptors : 1..MaxDescriptors, timestamp : 0..1,
                     label : ImportLabels, fresh_wallet : BOOLEAN, active : BOOLEAN]
    /\ imp_request = << >>
    /\ imp_answer = NoImportAnswer
    /\ imp_out = NoImportResult

\* the request is built
ImportBuild ==
    /\ imp_pc = "called"
    /\ imp_request' = all_descriptors(imp_args)
    /\ imp_pc' = "sent"
    /\ UNCHANGED <<imp_args, imp_answer, imp_out>>
    /\ OnlyImport

\* make_request returns the node's results, one per descriptor
ImportAnswered(results) ==
    /\ imp_pc = "sent"
    /\ imp_answer' = [ok |-> TRUE, error |-> "none", results |-> results]
    /\ imp_out' = import_outcome(imp_answer')
    /\ imp_pc' = "returned"
    /\ UNCHANGED <<imp_args, imp_request>>
    /\ OnlyImport

\* make_request returns Err(e): returned by `?`
ImportRequestFails(kind) ==
    /\ imp_pc = "sent"
    /\ imp_answer' = [ok |-> FALSE, error |-> kind, results |-> << >>]
    /\ imp_out' = import_outcome(imp_answer')
    /\ imp_pc' = "returned"
    /\ UNCHANGED <<imp_args, imp_request>>
    /\ OnlyImport

NextImport ==
    \/ ImportBuild
    \/ \E results \in ImportAnswers(Len(imp_request)) : ImportAnswered(results)
    \/ \E kind \in ErrorKinds : ImportRequestFails(kind)

SpecImport == InitImport /\ [][NextImport]_vars

(***************************************************************************)
(* The lookups: is_in_mempool, is_current, get_spender_txid.               *)
(*                                                                         *)
(* The node knows the transaction looked up as "confirmed" (a wallet       *)
(* transaction in a block), "mempool" (an unconfirmed wallet transaction   *)
(* in the mempool), "evicted" (an unconfirmed wallet transaction out of    *)
(* the mempool) or "unknown" (no wallet transaction).  A request of a      *)
(* lookup returns the node's answer, except the request lk_fault names,    *)
(* which fails with the error make_request gave up on.                     *)
(***************************************************************************)
TxStates == {"unknown", "confirmed", "mempool", "evicted"}
\* what a wallet transaction can become while a lookup runs
WalletTxStates == TxStates \ {"unknown"}
Categories == {"send", "receive"}
SpenderTxids == 1..MaxTxs

\* Ok(res) of a request: `wellformed` when res holds the fields its reader
\* takes from it first (the 'hex' string of a gettransaction result),
\* `blockheight` when it holds a 'blockheight' that is an unsigned integer,
\* `mistyped` when it holds a 'blockheight' or a 'blocktime' that is none,
\* `timereceived` when it holds a 'timereceived' that is an unsigned integer
RequestOk(blockheight) ==
    [ok |-> TRUE, error |-> "none", code |-> 0, wellformed |-> TRUE,
     blockheight |-> blockheight, mistyped |-> FALSE, timereceived |-> TRUE]
\* a result without the field read first
RequestMalformed ==
    [ok |-> TRUE, error |-> "none", code |-> 0, wellformed |-> FALSE,
     blockheight |-> FALSE, mistyped |-> FALSE, timereceived |-> FALSE]
\* a gettransaction result whose 'blockheight' or 'blocktime' is a string, a
\* negative number or null
RequestMistyped ==
    [ok |-> TRUE, error |-> "none", code |-> 0, wellformed |-> TRUE,
     blockheight |-> FALSE, mistyped |-> TRUE, timereceived |-> TRUE]
\* a gettransaction result without a 'timereceived' that is an unsigned integer
RequestNoTimeReceived ==
    [ok |-> TRUE, error |-> "none", code |-> 0, wellformed |-> TRUE,
     blockheight |-> FALSE, mistyped |-> FALSE, timereceived |-> FALSE]
RequestErr(kind, code) ==
    [ok |-> FALSE, error |-> kind, code |-> code, wellformed |-> FALSE,
     blockheight |-> FALSE, mistyped |-> FALSE, timereceived |-> FALSE]
\* the thread unwinds: no Result reaches the caller
RequestPanic == RequestErr("panic", 0)

\* the node's answer to gettransaction on the watchonly wallet
node_gettransaction(tx) ==
    IF tx = "unknown" THEN RequestErr("Rpc", RPC_INVALID_ADDRESS_OR_KEY)
    ELSE RequestOk(tx = "confirmed")
\* the node's answer to getmempoolentry
node_getmempoolentry(tx) ==
    IF tx = "mempool" THEN RequestOk(FALSE)
    ELSE RequestErr("Rpc", RPC_INVALID_ADDRESS_OR_KEY)

\* the k-th request of a lookup: make_request's outcome
request(k, fault, answer) ==
    IF fault.call # k THEN answer
    ELSE IF fault.kind = "ApiBreak" THEN RequestMalformed
    ELSE IF fault.kind = "Mistyped" THEN RequestMistyped
    ELSE IF fault.kind = "NoTimeReceived" THEN RequestNoTimeReceived
    ELSE RequestErr(fault.kind, fault.code)

\* a request fails as make_request does, or its result lacks a field
FaultKinds == ErrorKinds \cup {"ApiBreak"}
\* the failures of the gettransaction request of get_wallet_transaction
WalletTxFaultKinds == FaultKinds \cup {"Mistyped", "NoTimeReceived"}
\* the failures get_spender_txid is run against
SpenderFaultKinds == {"SocketError", "Rpc", "ApiBreak"}
\* the faults of a lookup that sends at most n requests
Faults(n, kinds) ==
    {NoFault} \cup
    {[call |-> k, kind |-> kind,
      code |-> IF kind = "Rpc" THEN RPC_VERIFY_ERROR ELSE 0] :
        k \in 1..n, kind \in kinds}
\* the fault that happened, if the lookup sent `sent` requests
Happened(fault, sent) == IF fault.call <= sent THEN fault ELSE NoFault

AnswerBool(b) == [ok |-> TRUE, answer |-> b, spender |-> 0, error |-> "none", code |-> 0]
AnswerSpender(t) ==
    [ok |-> TRUE, answer |-> FALSE, spender |-> t, error |-> "none", code |-> 0]
AnswerErr(r) ==
    [ok |-> FALSE, answer |-> FALSE, spender |-> 0, error |-> r.error, code |-> r.code]
\* the call never returns: the calling thread panicked
AnswerPanic == AnswerErr(RequestPanic)

\* is_in_mempool answering Ok(false) to every RpcError
is_in_mempool_any_rpc_error(r) ==
    IF r.ok THEN AnswerBool(TRUE)
    ELSE IF r.error = "Rpc" THEN AnswerBool(FALSE)
    ELSE AnswerErr(r)

\* is_in_mempool, r being the outcome of its getmempoolentry request
is_in_mempool(r) ==
    IF r.ok THEN AnswerBool(TRUE)
    ELSE IF r.error = "Rpc" /\ r.code = RPC_INVALID_ADDRESS_OR_KEY THEN AnswerBool(FALSE)
    ELSE AnswerErr(r)

\* get_wallet_transaction, r being the outcome of its gettransaction request
get_wallet_transaction(r) ==
    IF ~r.ok THEN r
    ELSE IF ~r.wellformed THEN RequestErr("Custom", 0)
    ELSE IF r.mistyped THEN RequestPanic
    ELSE IF ~r.timereceived THEN RequestErr("Custom", 0)
    ELSE r

\* is_current: `first` is the outcome of the gettransaction request, `second`
\* that of the getmempoolentry request, sent only for an unconfirmed
\* transaction
is_current(first, second) ==
    LET tx == get_wallet_transaction(first) IN
    IF tx = RequestPanic THEN [out |-> AnswerPanic, requests |-> 1]
    ELSE IF ~tx.ok THEN [out |-> AnswerBool(FALSE), requests |-> 1]
    ELSE IF tx.blockheight THEN [out |-> AnswerBool(TRUE), requests |-> 1]
    ELSE [out |-> is_in_mempool(second), requests |-> 2]

\* the scan of get_spender_txid from the k-th listed transaction on, after
\* `sent` requests, taking every category for an outgoing transaction
RECURSIVE spender_scan_any_category(_, _, _, _, _, _)
spender_scan_any_category(txs, vin, spent, fault, k, sent) ==
    IF k > Len(txs) THEN [out |-> AnswerSpender(0), requests |-> sent]
    ELSE LET gettx_res == request(sent + 1, fault, RequestOk(FALSE)) IN
         IF ~gettx_res.ok
         THEN [out |-> AnswerErr(gettx_res), requests |-> sent + 1]
         ELSE IF ~gettx_res.wellformed
         THEN [out |-> AnswerErr(RequestErr("Custom", 0)), requests |-> sent + 1]
         ELSE IF spent \in vin[txs[k].txid]
         THEN [out |-> AnswerSpender(txs[k].txid), requests |-> sent + 1]
         ELSE spender_scan_any_category(txs, vin, spent, fault, k + 1, sent + 1)

\* the scan of get_spender_txid from the k-th listed transaction on, after
\* `sent` requests
RECURSIVE spender_scan(_, _, _, _, _, _)
spender_scan(txs, vin, spent, fault, k, sent) ==
    IF k > Len(txs) THEN [out |-> AnswerSpender(0), requests |-> sent]
    ELSE IF txs[k].category # "send"
    THEN spender_scan(txs, vin, spent, fault, k + 1, sent)
    ELSE LET gettx_res == request(sent + 1, fault, RequestOk(FALSE)) IN
         IF ~gettx_res.ok
         THEN [out |-> AnswerErr(gettx_res), requests |-> sent + 1]
         ELSE IF ~gettx_res.wellformed
         THEN [out |-> AnswerErr(RequestErr("Custom", 0)), requests |-> sent + 1]
         ELSE IF spent \in vin[txs[k].txid]
         THEN [out |-> AnswerSpender(txs[k].txid), requests |-> sent + 1]
         ELSE spender_scan(txs, vin, spent, fault, k + 1, sent + 1)

\* get_spender_txid(spent_outpoint, block_hash), txs being the 'transactions'
\* the node lists since block_hash
get_spender_txid(txs, vin, spent, fault) ==
    LET lsb_res == request(1, fault, RequestOk(FALSE)) IN
    IF ~lsb_res.ok THEN [out |-> AnswerErr(lsb_res), requests |-> 1]
    ELSE IF ~lsb_res.wellformed
    THEN [out |-> AnswerErr(RequestErr("Custom", 0)), requests |-> 1]
    ELSE spender_scan(txs, vin, spent, fault, 1, 1)

ListedTransactions ==
    UNION {[1..n -> [category : Categories, txid : SpenderTxids]] : n \in 0..MaxTxs}

OnlyLookup ==
    /\ NotReconciling
    /\ UNCHANGED rpcvars
    /\ UNCHANGED batchvars
    /\ UNCHANGED hubvars
    /\ UNCHANGED sharedvars
    /\ UNCHANGED <<lk_fn, lk_tx, lk_txs, lk_vin, lk_spent>>

InitLookup ==
    /\ wallet = EmptyMap
    /\ pc = "idle"
    /\ min_conf = 0
    /\ deposits_utxos = EmptyMap
    /\ deposits_state = NoDelta
    /\ prev_state = NoDelta
    /\ passes = 0
    /\ seen_unconf = {}
    /\ conf_reports = NoReports
    /\ unvault_utxos = EmptyMap
    /\ unvaults_state = NoUnvaultsState
    /\ RpcUnused
    /\ BatchUnused
    /\ HubUnused
    /\ SharedUnused
    /\ AnswerUnused
    /\ ImportUnused
    /\ lk_fn \in {"is_in_mempool", "is_current", "get_spender_txid"}
    /\ lk_done = FALSE
    /\ IF lk_fn = "get_spender_txid"
       THEN /\ lk_tx = "unknown"
            /\ lk_txs \in ListedTransactions
            /\ lk_vin \in [SpenderTxids -> SUBSET Outpoints]
            \* the inputs of a transaction that is not listed are never read
            /\ \A t \in SpenderTxids :
                  (\A k \in DOMAIN lk_txs : lk_txs[k].txid # t) => lk_vin[t] = {}
            /\ lk_spent \in OutpointIds
       ELSE /\ lk_tx \in TxStates
            /\ lk_txs = << >>
            /\ lk_vin = << >>
            /\ lk_spent = 1
    /\ lk_fault = NoFault
    /\ lk_requests = 0
    /\ lk_out = NoAnswer

\* one call of is_in_mempool(txid)
IsInMempool(fault) ==
    /\ lk_fn = "is_in_mempool"
    /\ ~lk_done
    /\ lk_done' = TRUE
    /\ lk_fault' = Happened(fault, 1)
    /\ lk_requests' = 1
    /\ lk_out' = is_in_mempool(request(1, fault, node_getmempoolentry(lk_tx)))
    /\ OnlyLookup

\* is_current(txid) up to the answer to its gettransaction request: the call
\* returns, or panics, unless the answer is an unconfirmed wallet transaction
IsCurrentGetTransaction(fault) ==
    /\ lk_fn = "is_current"
    /\ ~lk_done
    /\ lk_requests = 0
    /\ LET r == is_current(request(1, fault, node_gettransaction(lk_tx)),
                           node_getmempoolentry(lk_tx)) IN
       /\ lk_fault' = fault
       /\ lk_requests' = 1
       /\ lk_done' = (r.requests = 1)
       /\ lk_out' = IF r.requests = 1 THEN r.out ELSE NoAnswer
    /\ OnlyLookup

\* the node goes on between the two requests of is_current: the transaction
\* is mined, leaves the mempool or enters it again
NodeMovesTransaction(tx) ==
    /\ lk_fn = "is_current"
    /\ ~lk_done
    /\ lk_requests = 1
    /\ tx # lk_tx
    /\ lk_tx' = tx
    /\ NotReconciling
    /\ UNCHANGED <<rpcvars, batchvars, hubvars, sharedvars>>
    /\ UNCHANGED <<lk_fn, lk_done, lk_txs, lk_vin, lk_spent, lk_fault,
                   lk_requests, lk_out>>

\* is_current(txid) from its getmempoolentry request on: the first answer was
\* an unconfirmed wallet transaction
IsCurrentGetMempoolEntry(fault) ==
    /\ lk_fn = "is_current"
    /\ ~lk_done
    /\ lk_requests = 1
    /\ LET r == is_current(RequestOk(FALSE),
                           request(2, fault, node_getmempoolentry(lk_tx))) IN
       /\ lk_fault' = fault
       /\ lk_requests' = r.requests
       /\ lk_done' = TRUE
       /\ lk_out' = r.out
    /\ OnlyLookup

\* one call of get_spender_txid(spent_outpoint, block_hash)
GetSpenderTxid(fault) ==
    /\ lk_fn = "get_spender_txid"
    /\ ~lk_done
    /\ lk_done' = TRUE
    /\ LET r == get_spender_txid(lk_txs, lk_vin, OutPoint(lk_spent), fault) IN
       /\ lk_fault' = Happened(fault, r.requests)
       /\ lk_requests' = r.requests
       /\ lk_out' = r.out
    /\ OnlyLookup

NextLookup ==
    \/ \E fault \in Faults(1, FaultKinds) : IsInMempool(fault)
    \/ \E fault \in Faults(1, WalletTxFaultKinds) : IsCurrentGetTransaction(fault)
    \/ \E tx \in WalletTxStates : NodeMovesTransaction(tx)
    \/ \E fault \in {f \in Faults(2, FaultKinds) : f.call # 1} :
          IsCurrentGetMempoolEntry(fault)
    \/ \E fault \in Faults(1 + Len(lk_txs), SpenderFaultKinds) : GetSpenderTxid(fault)

SpecLookup == InitLookup /\ [][NextLookup]_vars

(***************************************************************************)
(* The vault state machine.  The sources declare its errors                *)
(* (RpcControlError) and read the status of a vault (the ListVaults arm);  *)
(* the transitions themselves follow sections 3 and 4.3 of the             *)
(* specification: a progression with branch points, each transition        *)
(* validating the current status against its predecessor status.           *)
(***************************************************************************)
VaultStatuses ==
    {"unconfirmed", "funded", "securing", "secured", "active", "unvaulted",
     "canceling", "canceled", "spending", "spent", "emergency",
     "emergency_vaulted"}

\* the steps of the progression, <<predecessor, successor>>
Progression ==
    {<<"unconfirmed", "funded">>, <<"funded", "securing">>,
     <<"securing", "secured">>, <<"secured", "active">>,
     <<"active", "unvaulted">>, <<"unvaulted", "canceling">>,
     <<"canceling", "canceled">>, <<"unvaulted", "spending">>,
     <<"spending", "spent">>, <<"unvaulted", "emergency">>,
     <<"emergency", "emergency_vaulted">>}

\* the transactions a vault holds once it reached a status
attached_at(status) ==
    IF status = "securing" THEN {"cancel", "emergency", "unvault_emergency"}
    ELSE IF status = "active" THEN {"unvault"}
    ELSE IF status = "spending" THEN {"spend"}
    ELSE {}

TransitionOk == [ok |-> TRUE, error |-> "none"]

\* RpcControlError::InvalidStatus((VaultStatus, VaultStatus)):
\* .0 is current status, .1 is required status
InvalidStatus(is, need) ==
    [ok |-> FALSE, error |-> "InvalidStatus", current |-> is, required |-> need]

\* RpcControlError::UnknownOutpoint(OutPoint)
UnknownOutpoint(i) == [ok |-> FALSE, error |-> "UnknownOutpoint", outpoint |-> OutPoint(i)]

\* the Vault created for a deposit first observed
new_vault == [status |-> "unconfirmed", updated_at |-> 0, txs |-> {}]

\* a transition that reports the conflict and coerces the vault all the same
vault_transition_coerce(vault, required, next) ==
    [vault |-> [status |-> next, updated_at |-> vault.updated_at + 1,
                txs |-> vault.txs \cup attached_at(next)],
     result |-> IF vault.status # required
                THEN InvalidStatus(vault.status, required)
                ELSE TransitionOk]

\* one transition of a vault: validate the current status against the
\* required predecessor, then advance, stamp and attach
vault_transition(vault, required, next) ==
    IF vault.status # required
    THEN [vault |-> vault, result |-> InvalidStatus(vault.status, required)]
    ELSE [vault |-> [status |-> next, updated_at |-> vault.updated_at + 1,
                     txs |-> vault.txs \cup attached_at(next)],
          result |-> TransitionOk]

\* a transition requested on the vault at an outpoint of the map
transition_at(vs, i, required, next) ==
    IF vs[i] = NoVault
    THEN [vaults |-> vs, result |-> UnknownOutpoint(i)]
    ELSE LET r == vault_transition(vs[i], required, next) IN
         [vaults |-> [vs EXCEPT ![i] = r.vault], result |-> r.result]

OnlyVaults ==
    /\ NotReconciling
    /\ UNCHANGED rpcvars
    /\ UNCHANGED batchvars
    /\ UNCHANGED lkvars
    /\ UNCHANGED hubvars
    /\ UNCHANGED <<vault_lock, node_rpcs, lv_filter, lv_reply>>

InitVault ==
    /\ wallet = EmptyMap
    /\ pc = "idle"
    /\ min_conf = 0
    /\ deposits_utxos = EmptyMap
    /\ deposits_state = NoDelta
    /\ prev_state = NoDelta
    /\ passes = 0
    /\ seen_unconf = {}
    /\ conf_reports = NoReports
    /\ unvault_utxos = EmptyMap
    /\ unvaults_state = NoUnvaultsState
    /\ CallsUnused

\* a deposit is first observed: its vault is created at the initial status
VaultCreate(i) ==
    /\ vaults[i] = NoVault
    /\ vaults' = [vaults EXCEPT ![i] = new_vault]
    /\ vt_result' = NoResult
    /\ OnlyVaults

\* a transition is requested on the vault at outpoint i
VaultTransition(i, required, next) ==
    /\ LET r == transition_at(vaults, i, required, next) IN
       /\ vaults' = r.vaults
       /\ vt_result' = [call |-> [outpoint |-> i, required |-> required,
                                  next |-> next],
                        result |-> r.result]
    /\ OnlyVaults

NextVault ==
    \/ \E i \in OutpointIds : VaultCreate(i)
    \/ \E i \in OutpointIds, e \in Progression : VaultTransition(i, e[1], e[2])

SpecVault == InitVault /\ [][NextVault]_vars

(***************************************************************************)
(* daemon_main: the hub's loop over rpc_rx, the control (JSONRPC) thread   *)
(* and the bitcoind (sync engine) thread.  The loops of the two worker     *)
(* threads are outside the sources: a worker sends or takes messages, ends *)
(* (the control thread after it sent Shutdown, the bitcoind thread when it *)
(* takes Shutdown), panics, or returns an error, on which its closure      *)
(* exits the process.                                                      *)
(***************************************************************************)
MessageTypes == {"Shutdown", "GetInfo", "ListVaults"}
Running == exit_status = -1
Stays(at) == [pc |-> at, status |-> -1, by |-> "none"]
Exits(status, by) == [pc |-> "exited", status |-> status, by |-> by]

\* .unwrap_or_else(..) that goes on after an Err
unwrap_or_continue(ok, next) == Stays(next)

\* .unwrap_or_else(|e| { log::error!(..); process::exit(1); })
unwrap_or_exit(ok, next) == IF ok THEN Stays(next) ELSE Exits(1, "hub_failure")

\* the Shutdown arm with process::exit(0) right after the first join
shutdown_next_one_join(at) ==
    IF at = "shutdown_send" THEN "join_jsonrpc" ELSE "exit_ok"

\* a Shutdown arm that goes back to the receive loop after the send
shutdown_next_serves_on(at) ==
    IF at = "shutdown_send" THEN "recv"
    ELSE IF at = "join_jsonrpc" THEN "join_bitcoind"
    ELSE "exit_ok"

\* the order of the Shutdown arm
shutdown_next(at) ==
    IF at = "shutdown_send" THEN "join_jsonrpc"
    ELSE IF at = "join_jsonrpc" THEN "join_bitcoind"
    ELSE "exit_ok"

\* the arm of the match for a message
arm_of(type) ==
    IF type = "Shutdown" THEN "shutdown_send"
    ELSE IF type = "GetInfo" THEN "getinfo_send"
    ELSE "listvaults_read"

HubGoes(r) ==
    /\ hub_pc' = r.pc
    /\ exit_status' = r.status
    /\ exit_by' = r.by

OnlyHub ==
    /\ NotReconciling
    /\ UNCHANGED rpcvars
    /\ UNCHANGED batchvars
    /\ UNCHANGED lkvars

Threads == {"hub", "jsonrpc", "bitcoind"}

thread_runs(t) ==
    IF t = "jsonrpc" THEN jsonrpc_thread = "running"
    ELSE IF t = "bitcoind" THEN bitcoind_thread = "running"
    ELSE TRUE

\* the loop of worker t returned Err(e) and its closure has yet to exit
thread_fails(t) ==
    IF t = "jsonrpc" THEN jsonrpc_thread = "failing"
    ELSE IF t = "bitcoind" THEN bitcoind_thread = "failing"
    ELSE FALSE

\* JoinHandle::join() of a worker returns: the thread ended, with Ok or by a
\* panic; a thread whose closure is about to exit the process has not ended
joinable(thread) == thread \in {"finished", "panicked"}

\* a daemon_main that keeps a reference to bitcoind for its own requests
bitcoind_holders_shared == {"hub", "bitcoind"}

\* the threads that hold the BitcoinD: `&bitcoind` is captured by the closure
\* of bitcoind_thread and used nowhere else after the threads are spawned
bitcoind_holders == {"bitcoind"}

\* the threads that hold the Arc<RwLock<RevaultD>>: revaultd stays with the
\* hub, its clone bit_revaultd is moved into bitcoind_thread
revaultd_holders == {"hub", "bitcoind"}

\* how a thread locks the RevaultD: the hub calls revaultd.read() only (the
\* network before the loop, the vaults in the ListVaults arm); the loop of
\* the bitcoind thread is outside the sources and reads it
lock_modes(t) ==
    IF t \notin revaultd_holders THEN {}
    ELSE {"read"}

\* RwLock::read() returns: no writer holds the lock
read_returns(lock) == lock.writer = "none"
\* RwLock::write() returns: nobody holds the lock
write_returns(lock) == lock = Unlocked
\* the lock once thread t holds it in a mode
locked(lock, t, mode) ==
    IF mode = "write" THEN [lock EXCEPT !.writer = t]
    ELSE [lock EXCEPT !.readers = @ \cup {t}]
\* the lock once the guard of thread t is dropped
unlocked(lock, t) ==
    [writer |-> IF lock.writer = t THEN "none" ELSE lock.writer,
     readers |-> lock.readers \ {t}]

\* the vaults of the RevaultD when the threads are spawned, after setup_db
\* and start_bitcoind had it by &mut: none, an unconfirmed or a funded one
\* for each outpoint
CachedVaults ==
    [OutpointIds -> {NoVault, new_vault,
                     vault_transition(new_vault, "unconfirmed", "funded").vault}]

InitHub ==
    /\ wallet = EmptyMap
    /\ pc = "idle"
    /\ min_conf = 0
    /\ deposits_utxos = EmptyMap
    /\ deposits_state = NoDelta
    /\ prev_state = NoDelta
    /\ passes = 0
    /\ seen_unconf = {}
    /\ conf_reports = NoReports
    /\ unvault_utxos = EmptyMap
    /\ unvaults_state = NoUnvaultsState
    /\ RpcUnused
    /\ BatchUnused
    /\ LookupUnused
    /\ HubUnused
    /\ vaults \in CachedVaults
    /\ vault_lock = Unlocked
    /\ node_rpcs = {}
    /\ lv_filter = NoFilter
    /\ lv_reply = {}
    /\ vt_result = NoResult
    /\ AnswerUnused
    /\ ImportUnused

\* the control thread sends a request on rpc_tx
CtlSend(type) ==
    /\ Running
    /\ jsonrpc_thread = "running"
    /\ ctl_sent < MaxRequests
    /\ ctl_sent' = ctl_sent + 1
    /\ rpc_queue' = Append(rpc_queue, [type |-> type, id |-> ctl_sent'])
    /\ UNCHANGED <<hub_pc, current, jsonrpc_thread, bitcoind_thread, bitcoind_queue,
                   bitrep, hub_done, served, answered, exit_status, exit_by>>
    /\ UNCHANGED sharedvars
    /\ OnlyHub

ShutdownSent ==
    \/ current.type = "Shutdown"
    \/ \E k \in DOMAIN rpc_queue : rpc_queue[k].type = "Shutdown"

\* jsonrpcapi_loop returns Ok(()): the thread ends and drops rpc_tx
CtlFinish ==
    /\ Running
    /\ jsonrpc_thread = "running"
    /\ ShutdownSent
    /\ jsonrpc_thread' = "finished"
    /\ UNCHANGED <<hub_pc, current, rpc_queue, ctl_sent, bitcoind_thread,
                   bitcoind_queue, bitrep, hub_done, served, answered, exit_status,
                   exit_by>>
    /\ UNCHANGED sharedvars
    /\ OnlyHub

\* the control thread panics: it drops rpc_tx and its reply receivers
CtlPanic ==
    /\ Running
    /\ jsonrpc_thread = "running"
    /\ jsonrpc_thread' = "panicked"
    /\ UNCHANGED <<hub_pc, current, rpc_queue, ctl_sent, bitcoind_thread,
                   bitcoind_queue, bitrep, hub_done, served, answered, exit_status,
                   exit_by>>
    /\ UNCHANGED sharedvars
    /\ OnlyHub

\* jsonrpcapi_loop returns Err(e): rpc_tx, which the loop owns, and its reply
\* receivers are dropped before the closure of unwrap_or_else runs
CtlError ==
    /\ Running
    /\ jsonrpc_thread = "running"
    /\ jsonrpc_thread' = "failing"
    /\ UNCHANGED <<hub_pc, current, rpc_queue, ctl_sent, bitcoind_thread,
                   bitcoind_queue, bitrep, hub_done, served, answered, exit_status,
                   exit_by>>
    /\ UNCHANGED sharedvars
    /\ OnlyHub

\* the closure of a worker whose loop returned Err(e): log::error!, then
\* process::exit(1)
WorkerExit(t) ==
    /\ Running
    /\ t # "hub"
    /\ thread_fails(t)
    /\ exit_status' = 1
    /\ exit_by' = "worker"
    /\ UNCHANGED <<hub_pc, current, rpc_queue, ctl_sent, jsonrpc_thread,
                   bitcoind_thread, bitcoind_queue, bitrep, hub_done, served,
                   answered>>
    /\ UNCHANGED sharedvars
    /\ OnlyHub

\* the bitcoind thread takes a message from bitcoind_rx: it answers a
\* SyncProgress on its rendezvous channel, and returns Ok(()) on Shutdown
EngTake ==
    /\ Running
    /\ bitcoind_thread = "running"
    /\ "bitcoind" \notin node_rpcs
    /\ bitcoind_queue # << >>
    /\ bitcoind_queue' = Tail(bitcoind_queue)
    /\ IF Head(bitcoind_queue) = "Shutdown"
       THEN bitcoind_thread' = "finished" /\ UNCHANGED bitrep
       ELSE bitrep' = "replied" /\ UNCHANGED bitcoind_thread
    /\ UNCHANGED <<hub_pc, current, rpc_queue, ctl_sent, jsonrpc_thread, hub_done,
                   served, answered, exit_status, exit_by>>
    /\ UNCHANGED sharedvars
    /\ OnlyHub

\* the bitcoind thread panics: it drops bitcoind_rx and the messages in it
EngPanic ==
    /\ Running
    /\ bitcoind_thread = "running"
    /\ bitcoind_thread' = "panicked"
    /\ bitcoind_queue' = << >>
    /\ bitrep' = IF bitrep = "waiting" THEN "dropped" ELSE bitrep
    /\ vault_lock' = unlocked(vault_lock, "bitcoind")
    /\ node_rpcs' = node_rpcs \ {"bitcoind"}
    /\ UNCHANGED <<hub_pc, current, rpc_queue, ctl_sent, jsonrpc_thread, hub_done,
                   served, answered, exit_status, exit_by>>
    /\ UNCHANGED <<vaults, lv_filter, lv_reply, vt_result>>
    /\ OnlyHub

\* a worker thread locks the RevaultD it holds
WorkerLock(t, mode) ==
    /\ Running
    /\ t # "hub"
    /\ thread_runs(t)
    /\ mode \in lock_modes(t)
    /\ vault_lock.writer # t /\ t \notin vault_lock.readers
    /\ IF mode = "write" THEN write_returns(vault_lock) ELSE read_returns(vault_lock)
    /\ vault_lock' = locked(vault_lock, t, mode)
    /\ UNCHANGED hubvars
    /\ UNCHANGED <<vaults, node_rpcs, lv_filter, lv_reply, vt_result>>
    /\ OnlyHub

\* a worker thread drops its guard
WorkerUnlock(t) ==
    /\ Running
    /\ t # "hub"
    /\ thread_runs(t)
    /\ vault_lock.writer = t \/ t \in vault_lock.readers
    /\ vault_lock' = unlocked(vault_lock, t)
    /\ UNCHANGED hubvars
    /\ UNCHANGED <<vaults, node_rpcs, lv_filter, lv_reply, vt_result>>
    /\ OnlyHub

\* a thread that holds the BitcoinD sends a request to the node
NodeRpcStart(t) ==
    /\ Running
    /\ t \in bitcoind_holders
    /\ thread_runs(t)
    /\ t \notin node_rpcs
    /\ node_rpcs' = node_rpcs \cup {t}
    /\ UNCHANGED hubvars
    /\ UNCHANGED <<vaults, vault_lock, lv_filter, lv_reply, vt_result>>
    /\ OnlyHub

\* make_request returns
NodeRpcEnd(t) ==
    /\ Running
    /\ t \in node_rpcs
    /\ thread_runs(t)
    /\ node_rpcs' = node_rpcs \ {t}
    /\ UNCHANGED hubvars
    /\ UNCHANGED <<vaults, vault_lock, lv_filter, lv_reply, vt_result>>
    /\ OnlyHub

\* bitcoind_main_loop returns Err(e): bitcoind_rx, which the loop owns, is
\* dropped with the messages in it, and so are the guards of the loop, before
\* the closure of unwrap_or_else runs
EngError ==
    /\ Running
    /\ bitcoind_thread = "running"
    /\ bitcoind_thread' = "failing"
    /\ bitcoind_queue' = << >>
    /\ bitrep' = IF bitrep = "waiting" THEN "dropped" ELSE bitrep
    /\ vault_lock' = unlocked(vault_lock, "bitcoind")
    /\ node_rpcs' = node_rpcs \ {"bitcoind"}
    /\ UNCHANGED <<hub_pc, current, rpc_queue, ctl_sent, jsonrpc_thread, hub_done,
                   served, answered, exit_status, exit_by>>
    /\ UNCHANGED <<vaults, lv_filter, lv_reply, vt_result>>
    /\ OnlyHub

\* `for message in rpc_rx`: the next message
HubRecv ==
    /\ Running
    /\ hub_pc = "recv"
    /\ rpc_queue # << >>
    /\ current' = Head(rpc_queue)
    /\ rpc_queue' = Tail(rpc_queue)
    /\ served' = Append(served, current'.id)
    /\ hub_pc' = arm_of(current'.type)
    /\ UNCHANGED <<ctl_sent, jsonrpc_thread, bitcoind_thread, bitcoind_queue, bitrep,
                   hub_done, answered, exit_status, exit_by>>
    /\ UNCHANGED sharedvars
    /\ OnlyHub

\* `for message in rpc_rx` ends: every rpc_tx is dropped and the channel is
\* empty; daemon_main returns, then main
HubLoopEnds ==
    /\ Running
    /\ hub_pc = "recv"
    /\ rpc_queue = << >>
    /\ jsonrpc_thread # "running"
    /\ HubGoes(Exits(0, "main_return"))
    /\ UNCHANGED <<current, rpc_queue, ctl_sent, jsonrpc_thread, bitcoind_thread,
                   bitcoind_queue, bitrep, hub_done, served, answered>>
    /\ UNCHANGED sharedvars
    /\ OnlyHub

\* bitcoind_tx.send(BitcoindMessageOut::Shutdown)
HubSendShutdown ==
    /\ Running
    /\ hub_pc = "shutdown_send"
    /\ LET ok == bitcoind_thread = "running" IN
       /\ HubGoes(unwrap_or_exit(ok, shutdown_next(hub_pc)))
       /\ bitcoind_queue' = IF ok THEN Append(bitcoind_queue, "Shutdown")
                                   ELSE bitcoind_queue
       /\ hub_done' = IF ok THEN Append(hub_done, "send_shutdown") ELSE hub_done
    /\ UNCHANGED <<current, rpc_queue, ctl_sent, jsonrpc_thread, bitcoind_thread,
                   bitrep, served, answered>>
    /\ UNCHANGED sharedvars
    /\ OnlyHub

\* jsonrpc_thread.join(): returns when the thread has ended
HubJoinJsonrpc ==
    /\ Running
    /\ hub_pc = "join_jsonrpc"
    /\ joinable(jsonrpc_thread)
    /\ LET ok == jsonrpc_thread = "finished" IN
       /\ HubGoes(unwrap_or_exit(ok, shutdown_next(hub_pc)))
       /\ hub_done' = IF ok THEN Append(hub_done, "join_jsonrpc") ELSE hub_done
    /\ UNCHANGED <<current, rpc_queue, ctl_sent, jsonrpc_thread, bitcoind_thread,
                   bitcoind_queue, bitrep, served, answered>>
    /\ UNCHANGED sharedvars
    /\ OnlyHub

\* bitcoind_thread.join(): returns when the thread has ended
HubJoinBitcoind ==
    /\ Running
    /\ hub_pc = "join_bitcoind"
    /\ joinable(bitcoind_thread)
    /\ LET ok == bitcoind_thread = "finished" IN
       /\ HubGoes(unwrap_or_exit(ok, shutdown_next(hub_pc)))
       /\ hub_done' = IF ok THEN Append(hub_done, "join_bitcoind") ELSE hub_done
    /\ UNCHANGED <<current, rpc_queue, ctl_sent, jsonrpc_thread, bitcoind_thread,
                   bitcoind_queue, bitrep, served, answered>>
    /\ UNCHANGED sharedvars
    /\ OnlyHub

\* process::exit(0)
HubExitOk ==
    /\ Running
    /\ hub_pc = "exit_ok"
    /\ HubGoes(Exits(0, "shutdown"))
    /\ UNCHANGED <<current, rpc_queue, ctl_sent, jsonrpc_thread, bitcoind_thread,
                   bitcoind_queue, bitrep, hub_done, served, answered>>
    /\ UNCHANGED sharedvars
    /\ OnlyHub

\* mpsc::sync_channel(0), then bitcoind_tx.send(SyncProgress(bitrep_tx))
HubGetInfoSend ==
    /\ Running
    /\ hub_pc = "getinfo_send"
    /\ LET ok == bitcoind_thread = "running" IN
       /\ HubGoes(unwrap_or_exit(ok, "getinfo_recv"))
       /\ bitcoind_queue' = IF ok THEN Append(bitcoind_queue, "SyncProgress")
                                   ELSE bitcoind_queue
       /\ bitrep' = IF ok THEN "waiting" ELSE "dropped"
    /\ UNCHANGED <<current, rpc_queue, ctl_sent, jsonrpc_thread, bitcoind_thread,
                   hub_done, served, answered>>
    /\ UNCHANGED sharedvars
    /\ OnlyHub

\* a receive that returns Err at once when no reply is there yet
recv_returns_try(rep) == TRUE

\* bitrep_rx.recv() returns: with the reply, or with Err once bitrep_tx is
\* dropped; it blocks until then
recv_returns(rep) == rep \in {"replied", "dropped"}

\* bitrep_rx.recv()
HubGetInfoRecv ==
    /\ Running
    /\ hub_pc = "getinfo_recv"
    /\ recv_returns(bitrep)
    /\ HubGoes(unwrap_or_exit(bitrep = "replied", "getinfo_db"))
    /\ bitrep' = "none"
    /\ UNCHANGED <<current, rpc_queue, ctl_sent, jsonrpc_thread, bitcoind_thread,
                   bitcoind_queue, hub_done, served, answered>>
    /\ UNCHANGED sharedvars
    /\ OnlyHub

\* db_tip(&db_path)
HubGetInfoDbTip(ok) ==
    /\ Running
    /\ hub_pc = "getinfo_db"
    /\ HubGoes(unwrap_or_exit(ok, "getinfo_reply"))
    /\ UNCHANGED <<current, rpc_queue, ctl_sent, jsonrpc_thread, bitcoind_thread,
                   bitcoind_queue, bitrep, hub_done, served, answered>>
    /\ UNCHANGED sharedvars
    /\ OnlyHub

\* the filters a ListVaults message carries: a status or None, a set of
\* outpoints or None; the messages sent carry no list, an empty list or a
\* list of one outpoint
StatusFilters == {"none", "unconfirmed", "funded"}
OutpointFilters ==
    {None} \cup {Some({})} \cup {Some({i}) : i \in OutpointIds}

\* the entry pushed for a vault: (value, status, txid, vout)
ListVaultsEntry(i, vault) ==
    [amount |-> AmountOf(i), status |-> vault.status, txid |-> OutPoint(i).txid,
     vout |-> OutPoint(i).vout]

\* the loop over revaultd.vaults: a vault is skipped when a status filter is
\* given and differs from its status, or when the second filter is given and
\* does not contain the txid of its outpoint
list_vaults(vs, status, outpoints) ==
    {ListVaultsEntry(i, vs[i]) :
       i \in {j \in OutpointIds :
               /\ vs[j] # NoVault
               /\ ~(status # "none" /\ vs[j].status # status)
               /\ ~(outpoints.some
                      /\ OutPoint(j).txid \notin {OutPoint(k).txid : k \in outpoints.of})}}

\* revaultd.read().unwrap(): the read guard of the `for` expression
HubListVaultsLock ==
    /\ Running
    /\ hub_pc = "listvaults_read"
    /\ read_returns(vault_lock)
    /\ vault_lock' = locked(vault_lock, "hub", "read")
    /\ HubGoes(Stays("listvaults_iter"))
    /\ UNCHANGED <<current, rpc_queue, ctl_sent, jsonrpc_thread, bitcoind_thread,
                   bitcoind_queue, bitrep, hub_done, served, answered>>
    /\ UNCHANGED <<vaults, node_rpcs, lv_filter, lv_reply, vt_result>>
    /\ OnlyHub

\* a ListVaults arm that binds the read guard to a variable of the arm, so
\* that it is still held when the reply is sent
HubListVaultsRead_keeps_guard(status, outpoints) ==
    /\ Running
    /\ hub_pc = "listvaults_iter"
    /\ lv_filter' = [status |-> status, outpoints |-> outpoints]
    /\ lv_reply' = list_vaults(vaults, status, outpoints)
    /\ HubGoes(Stays("listvaults_reply"))
    /\ UNCHANGED <<current, rpc_queue, ctl_sent, jsonrpc_thread, bitcoind_thread,
                   bitcoind_queue, bitrep, hub_done, served, answered>>
    /\ UNCHANGED <<vaults, vault_lock, node_rpcs, vt_result>>
    /\ OnlyHub

\* the loop over revaultd.vaults that builds resp; the read guard is dropped
\* at the end of the `for` statement
HubListVaultsRead(status, outpoints) ==
    /\ Running
    /\ hub_pc = "listvaults_iter"
    /\ lv_filter' = [status |-> status, outpoints |-> outpoints]
    /\ lv_reply' = list_vaults(vaults, status, outpoints)
    /\ vault_lock' = unlocked(vault_lock, "hub")
    /\ HubGoes(Stays("listvaults_reply"))
    /\ UNCHANGED <<current, rpc_queue, ctl_sent, jsonrpc_thread, bitcoind_thread,
                   bitcoind_queue, bitrep, hub_done, served, answered>>
    /\ UNCHANGED <<vaults, node_rpcs, vt_result>>
    /\ OnlyHub

\* response_tx.send(..) of the GetInfo and ListVaults arms: Err when the
\* control thread dropped the receiver
HubReply ==
    /\ Running
    /\ hub_pc \in {"getinfo_reply", "listvaults_reply"}
    /\ LET ok == jsonrpc_thread = "running" IN
       /\ HubGoes(unwrap_or_exit(ok, "recv"))
       /\ answered' = IF ok THEN Append(answered, current.id) ELSE answered
       /\ current' = IF ok THEN NoMessage ELSE current
       /\ lv_filter' = IF ok THEN NoFilter ELSE lv_filter
       /\ lv_reply' = IF ok THEN {} ELSE lv_reply
    /\ UNCHANGED <<rpc_queue, ctl_sent, jsonrpc_thread, bitcoind_thread,
                   bitcoind_queue, bitrep, hub_done, served>>
    /\ UNCHANGED <<vaults, vault_lock, node_rpcs, vt_result>>
    /\ OnlyHub

NextHub ==
    \/ \E type \in MessageTypes : CtlSend(type)
    \/ CtlFinish
    \/ CtlPanic
    \/ CtlError
    \/ EngTake
    \/ EngPanic
    \/ EngError
    \/ \E t \in Threads : WorkerExit(t)
    \/ HubRecv
    \/ HubLoopEnds
    \/ HubSendShutdown
    \/ HubJoinJsonrpc
    \/ HubJoinBitcoind
    \/ HubExitOk
    \/ HubGetInfoSend
    \/ HubGetInfoRecv
    \/ \E ok \in BOOLEAN : HubGetInfoDbTip(ok)
    \/ HubListVaultsLock
    \/ \E status \in StatusFilters, outpoints \in OutpointFilters :
         HubListVaultsRead(status, outpoints)
    \/ HubReply
    \/ \E t \in Threads, mode \in {"read", "write"} : WorkerLock(t, mode)
    \/ \E t \in Threads : WorkerUnlock(t)
    \/ \E t \in Threads : NodeRpcStart(t)
    \/ \E t \in Threads : NodeRpcEnd(t)

SpecHub == InitHub /\ [][NextHub]_vars

(***************************************************************************)
(* Properties of deposit reconciliation.  While pc = "synced" the known    *)
(* map and the wallet are those of the call that returned deposits_state.  *)
(***************************************************************************)
Range(seq) == {seq[i] : i \in 1..Len(seq)}

\* the deposit-labelled entries of the node's answer to sync_deposits
LiveEntries ==
    {e \in Range(deposits_listunspent(wallet)) : e.label = DEPOSIT_UTXOS_LABEL}
\* L: the outpoints the node reports live
Live == {[txid |-> e.txid, vout |-> e.vout] : e \in LiveEntries}
\* the confirmation count the node reports for a live outpoint
LiveConfs(o) == (CHOOSE e \in LiveEntries : e.txid = o.txid /\ e.vout = o.vout).confirmations
\* K: the known outpoints
Known == DOMAIN deposits_utxos

NewUnconf == DOMAIN deposits_state.new_unconf
NewConf == DOMAIN deposits_state.new_conf
NewSpent == DOMAIN deposits_state.new_spent

\* C1: the three sets returned by sync_deposits are pairwise disjoint.
C1_OutputsDisjoint ==
    pc = "synced" =>
        /\ NewUnconf \cap NewConf = {}
        /\ NewUnconf \cap NewSpent = {}
        /\ NewConf \cap NewSpent = {}

C1_Witness ==
    /\ pc = "synced"
    /\ NewConf # {}
    /\ NewSpent # {}

\* C2: every known outpoint absent from the node's list is returned in
\* new_spent (and not in new_conf), and new_spent holds no outpoint that is
\* still listed.
C2_AbsentIsSpent ==
    pc = "synced" =>
        /\ \A o \in Known \ Live : o \in NewSpent /\ o \notin NewConf
        /\ NewSpent \cap Live = {}

C2_Witness ==
    /\ pc = "synced"
    /\ Known \ Live # {}
    /\ Known \cap Live # {}

\* C3: every listed outpoint that is not known is returned in new_unconf
\* with is_confirmed false, whatever its confirmation count, and new_unconf
\* holds no known outpoint.
C3_UnknownIsNewUnconfirmed ==
    pc = "synced" =>
        /\ \A o \in Live \ Known :
              /\ o \in NewUnconf
              /\ deposits_state.new_unconf[o].is_confirmed = FALSE
        /\ NewUnconf \cap Known = {}

C3_Witness ==
    /\ pc = "synced"
    /\ min_conf >= 1
    /\ \E o \in Live \ Known : LiveConfs(o) >= min_conf

\* C4: an outpoint is in new_conf exactly when it is known unconfirmed,
\* listed, and has at least min_conf confirmations; a listed known outpoint
\* that is already confirmed or has fewer confirmations is in no output set.
C4_ConfirmedExactly ==
    pc = "synced" =>
        /\ \A o \in Outpoints :
              o \in NewConf <=>
                  /\ o \in Known
                  /\ ~deposits_utxos[o].is_confirmed
                  /\ o \in Live
                  /\ LiveConfs(o) >= min_conf
        /\ \A o \in Known \cap Live :
              (deposits_utxos[o].is_confirmed \/ LiveConfs(o) < min_conf)
                  => o \notin NewUnconf \cup NewConf \cup NewSpent

C4_Witness ==
    /\ pc = "synced"
    /\ NewConf # {}
    /\ \E o \in Known \cap Live :
          deposits_utxos[o].is_confirmed /\ LiveConfs(o) >= min_conf

\* C5 as stated: the second of two calls over the same node state, the first
\* delta applied in between, returns an empty delta.
C5_SecondCallEmpty ==
    (pc = "synced" /\ passes = 2) => deposits_state = NoDelta

\* C5 amended: the second call returns empty new_unconf and new_spent, and
\* its new_conf holds exactly the outpoints the first call returned in
\* new_unconf that the node lists with at least min_conf confirmations.
C5_SecondCallOnlyPromotes ==
    (pc = "synced" /\ passes = 2) =>
        /\ NewUnconf = {}
        /\ NewSpent = {}
        /\ NewConf = {o \in DOMAIN prev_state.new_unconf : LiveConfs(o) >= min_conf}

C5_Witness ==
    /\ pc = "synced"
    /\ passes = 2
    /\ DOMAIN prev_state.new_spent # {}
    /\ NewConf # {}

\* C6: a pass returns in new_conf only outpoints that a strictly earlier
\* pass returned in new_unconf, and never one it returns in new_unconf itself.
C6_TwoPhaseArrival ==
    [][(pc = "idle" /\ pc' = "synced") =>
          /\ DOMAIN deposits_state'.new_conf \subseteq seen_unconf
          /\ DOMAIN deposits_state'.new_conf \cap DOMAIN deposits_state'.new_unconf = {}]_vars

C6_Witness ==
    /\ pc = "synced"
    /\ passes = 2
    /\ \E o \in NewConf : o \in DOMAIN prev_state.new_unconf

\* C7: no utxo worth less than MIN_DEPOSIT_VALUE is returned in new_unconf.
C7_NoDepositBelowFloor ==
    pc = "synced" =>
        \A o \in NewUnconf : deposits_state.new_unconf[o].value >= MIN_DEPOSIT_VALUE

(***************************************************************************)
(* Properties of unvault reconciliation.  While pc = "unv_synced" the      *)
(* known map and the wallet are those of the call that returned.           *)
(***************************************************************************)
\* the unvault-labelled entries of the node's answer to sync_unvaults
LiveUnvaultEntries ==
    {e \in Range(unvaults_listunspent(wallet)) : e.label = UNVAULT_UTXOS_LABEL}
LiveUnvaults == {[txid |-> e.txid, vout |-> e.vout] : e \in LiveUnvaultEntries}
LiveUnvaultConfs(o) ==
    (CHOOSE e \in LiveUnvaultEntries : e.txid = o.txid /\ e.vout = o.vout).confirmations
KnownUnvaults == DOMAIN unvault_utxos

\* C8: both sets returned by sync_unvaults are disjoint subsets of the known
\* map; new_conf is exactly the known unconfirmed outpoints listed with at
\* least 1 confirmation, new_spent exactly the known outpoints not listed.
C8_UnvaultsNeverDiscovered ==
    pc = "unv_synced" =>
        /\ DOMAIN unvaults_state.new_conf \subseteq KnownUnvaults
        /\ DOMAIN unvaults_state.new_spent \subseteq KnownUnvaults
        /\ DOMAIN unvaults_state.new_conf \cap DOMAIN unvaults_state.new_spent = {}
        /\ DOMAIN unvaults_state.new_conf =
              {o \in KnownUnvaults :
                  /\ ~unvault_utxos[o].is_confirmed
                  /\ o \in LiveUnvaults
                  /\ LiveUnvaultConfs(o) >= 1}
        /\ DOMAIN unvaults_state.new_spent = KnownUnvaults \ LiveUnvaults

C8_Witness ==
    /\ pc = "unv_synced"
    /\ LiveUnvaults \ KnownUnvaults # {}
    /\ \/ DOMAIN unvaults_state.new_conf # {}
       \/ DOMAIN unvaults_state.new_spent # {}

(***************************************************************************)
(* Properties of the RPC retry policy.                                     *)
(***************************************************************************)
\* C9: handle_error called with an InvalidUrl or SocketError transport
\* failure fails the call at once: no sleep (the clock does not move), no
\* further send, the error is the call's result, whatever time has elapsed.
C9_FatalTransportImmediate ==
    [][(rpc_pc = "handle" /\ pending \in {"InvalidUrl", "SocketError"}) =>
          /\ rpc_pc' = "failed"
          /\ rpc_result' = [ok |-> FALSE, error |-> pending]
          /\ clock' = clock
          /\ sends' = sends]_vars

\* the call failed and each of its attempts failed with HttpParseError
OnlyParseErrors ==
    /\ rpc_pc = "failed"
    /\ kinds_seen = {"HttpParseError"}
    /\ rpc_result.error = "HttpParseError"

\* C10: a call whose every attempt fails with HttpParseError re-sent the
\* request exactly once, after a 1s sleep, before it failed.
C10_ExactlyOneRetry ==
    OnlyParseErrors => (sends = 2 /\ last_sleep = PARSE_ERROR_SLEEP_MS)

(***************************************************************************)
(* C11: a transport failure that is neither InvalidUrl, SocketError nor    *)
(* HttpParseError makes the call sleep 1s and send the request again when  *)
(* it is observed at most 45s after the call's start, and makes it fail    *)
(* when it is observed later than that: a handle_error step on such a      *)
(* failure fails the call exactly when more than 45s have elapsed.         *)
(***************************************************************************)
C11_OtherTransportRetriesUntilWindow ==
    [][(rpc_pc = "handle" /\ pending = "OtherTransport")
         => IF clock - start > TRANSPORT_WINDOW_MS
            THEN /\ rpc_pc' = "failed"
                 /\ rpc_result' = [ok |-> FALSE, error |-> "OtherTransport"]
            ELSE /\ rpc_pc' = "send"
                 /\ clock' = clock + TRANSPORT_SLEEP_MS
                 /\ UNCHANGED rpc_result]_vars

\* a call retried on such a failure exactly 45s after its start
C11_Witness ==
    /\ rpc_pc = "send"
    /\ kinds_seen = {"OtherTransport"}
    /\ retry_at = TRANSPORT_WINDOW_MS
    /\ clock - start = TRANSPORT_WINDOW_MS + TRANSPORT_SLEEP_MS

(***************************************************************************)
(* C12: a Json failure makes the call sleep 500ms and send the request     *)
(* again when it is observed at most 1s after the call's start, and makes  *)
(* it fail when it is observed later than that.                            *)
(***************************************************************************)
C12_JsonRetriesUntilWindow ==
    [][(rpc_pc = "handle" /\ pending = "Json")
         => IF clock - start > JSON_WINDOW_MS
            THEN /\ rpc_pc' = "failed"
                 /\ rpc_result' = [ok |-> FALSE, error |-> "Json"]
            ELSE /\ rpc_pc' = "send"
                 /\ clock' = clock + JSON_SLEEP_MS
                 /\ UNCHANGED rpc_result]_vars

\* a call that failed on a Json failure after it was retried on one observed
\* exactly 1s after its start
C12_Witness ==
    /\ rpc_pc = "failed"
    /\ rpc_result.error = "Json"
    /\ kinds_seen = {"Json"}
    /\ retry_at = JSON_WINDOW_MS

(***************************************************************************)
(* C13: an RpcError, carried by the response or returned by the client's   *)
(* send, ends the call at once with that error and its code: no sleep, no  *)
(* further send.                                                           *)
(***************************************************************************)
C13_RpcErrorReturnedAtOnce ==
    [][/\ (rpc_pc = "handle" /\ pending = "Rpc")
            => /\ rpc_pc' = "failed"
               /\ rpc_result' = [ok |-> FALSE, error |-> "Rpc"]
               /\ rpc_code' = rpc_code
               /\ clock' = clock
               /\ sends' = sends
       /\ (rpc_pc = "failed" /\ rpc_result.error = "Rpc")
            => /\ rpc_code \in RpcCodes
               /\ UNCHANGED <<rpc_pc, rpc_result, rpc_code, clock, sends>>]_vars

\* an RpcError returned by the send, after an earlier failure was retried,
\* has reached the caller
C13_Witness ==
    /\ rpc_pc = "failed"
    /\ rpc_result.error = "Rpc"
    /\ rpc_code = RPC_VERIFY_ERROR
    /\ "Rpc" \in kinds_seen
    /\ retry_at >= 0


\* the kinds of failure handle_error retries, and the window of each: every
\* Transport failure until 45s, a Json failure until 1s
RetriedKinds == TransportKinds \cup {"Json"}
WindowOf(kind) ==
    IF kind \in TransportKinds THEN TRANSPORT_WINDOW_MS ELSE JSON_WINDOW_MS

\* the window the retry policy gives a kind of failure: 45s for a transport
\* failure that is neither InvalidUrl, SocketError nor HttpParseError, 1s for
\* HttpParseError and for Json
PolicyRetriedKinds == {"HttpParseError", "OtherTransport", "Json"}
PolicyWindowOf(kind) ==
    IF kind = "OtherTransport" THEN TRANSPORT_WINDOW_MS
    ELSE IF kind = "HttpParseError" THEN PARSE_ERROR_WINDOW_MS
    ELSE JSON_WINDOW_MS

(***************************************************************************)
(* C15: a call that returns after retried failures returns the node's      *)
(* result as a call that succeeded at once does; a call that fails on a    *)
(* retried kind of failure fails later than that kind's window (1s or 45s) *)
(* after its start, and, when every failure of the call was of that kind,  *)
(* its last sleep began within the window: it fails no later than the      *)
(* window plus one sleep and one attempt.                                  *)
(***************************************************************************)
C15_RetryTransparentAndBounded ==
    /\ rpc_pc = "returned" => rpc_result = [ok |-> TRUE, error |-> "none"]
    /\ (rpc_pc = "failed" /\ rpc_result.error \in PolicyRetriedKinds)
         => /\ clock - start > PolicyWindowOf(rpc_result.error)
            /\ kinds_seen = {rpc_result.error}
                 => /\ retry_at <= PolicyWindowOf(rpc_result.error)
                    /\ clock - start <= PolicyWindowOf(rpc_result.error) + last_sleep
                                          + MaxSendTicks * TickMs


\* the reply of the batch holds fewer responses than the batch has requests
ShortReply ==
    /\ batch_reply # << >>
    /\ Len(present_responses(batch_reply)) < batch_n
\* a present response of the reply holds an RpcError
ReplyHasError == \E k \in DOMAIN batch_reply : batch_reply[k].code # 0

(***************************************************************************)
(* C14 as stated: a batch whose reply holds fewer responses than requests  *)
(* is never a success and always fails with BatchMissingResponse, whatever *)
(* the responses that are present hold.                                    *)
(***************************************************************************)
C14_ShortReplyIsMissingResponse ==
    ShortReply => /\ rpc_pc = "failed"
                  /\ rpc_result = [ok |-> FALSE, error |-> "BatchMissingResponse"]

(***************************************************************************)
(* C14: a batch whose reply holds fewer responses than requests is never a *)
(* success; it fails with BatchMissingResponse when every present response *)
(* holds a result, and with the RpcError of the first present response     *)
(* that holds one otherwise.                                               *)
(***************************************************************************)
C14_ShortReplyNeverAccepted ==
    ShortReply
      => /\ rpc_pc = "failed"
         /\ ~rpc_result.ok
         /\ IF ReplyHasError
            THEN /\ rpc_result.error = "Rpc"
                 /\ LET res == present_responses(batch_reply) IN
                    \E k \in DOMAIN res :
                       /\ res[k].code = rpc_code
                       /\ \A j \in 1..(k - 1) : res[j].code = 0
            ELSE rpc_result.error = "BatchMissingResponse"

\* a batch of several requests answered, after a retried failure, by a reply
\* with one response missing and results only
C14_Witness ==
    /\ ShortReply
    /\ ~ReplyHasError
    /\ batch_n > 1
    /\ Len(present_responses(batch_reply)) = batch_n - 1
    /\ clock > start
    /\ rpc_result.error = "BatchMissingResponse"


\* the failures of a request that are no answer of the node
FailureKinds == (FaultKinds \ {"Rpc"})

(***************************************************************************)
(* C16: is_in_mempool answers Ok(true) when the node returns a mempool     *)
(* entry, Ok(false) when the node answers with its not-found code -5, and  *)
(* returns every other error of the request as it is, kind and code.       *)
(***************************************************************************)
C16_MempoolNotFoundIsFalse ==
    (lk_fn = "is_in_mempool" /\ lk_done)
      => IF lk_fault.kind \in ErrorKinds
         THEN lk_out = [ok |-> FALSE, answer |-> FALSE, spender |-> 0,
                        error |-> lk_fault.kind, code |-> lk_fault.code]
         ELSE /\ lk_out.ok
              /\ lk_out.error = "none"
              /\ lk_out.answer = (lk_tx = "mempool" \/ lk_fault.kind = "ApiBreak")

\* the node answered -5 for a transaction that left the mempool
C16_Witness ==
    /\ lk_fn = "is_in_mempool"
    /\ lk_done
    /\ lk_tx = "evicted"
    /\ lk_fault = NoFault
    /\ lk_out.ok
    /\ ~lk_out.answer

(***************************************************************************)
(* C17 as stated: is_current answers true exactly for a confirmed wallet   *)
(* transaction and for an unconfirmed wallet transaction in the mempool,   *)
(* false for an evicted or non-wallet transaction, and returns an error    *)
(* when a request of the lookup fails (transport or protocol failure).     *)
(***************************************************************************)
C17_CurrentOrError ==
    (lk_fn = "is_current" /\ lk_done)
      => IF lk_fault.kind \in FailureKinds
         THEN ~lk_out.ok
         ELSE lk_fault = NoFault
                => /\ lk_out.ok
                   /\ lk_out.answer = (lk_tx \in {"confirmed", "mempool"})


\* the positions, in the node's list, of the outgoing transactions that spend
\* the outpoint looked up
Spenders ==
    {k \in DOMAIN lk_txs : /\ lk_txs[k].category = "send"
                           /\ OutPoint(lk_spent) \in lk_vin[lk_txs[k].txid]}
FirstSpender == CHOOSE k \in Spenders : \A j \in Spenders : k <= j

(***************************************************************************)
(* C18: when no request fails, get_spender_txid returns the txid of the    *)
(* first listed 'send' transaction that has the outpoint among its inputs, *)
(* and None exactly when no listed 'send' transaction spends it; a         *)
(* transaction of another category is never the answer on that account.    *)
(* A request that fails makes it return that error.                        *)
(***************************************************************************)
C18_FirstOutgoingSpender ==
    (lk_fn = "get_spender_txid" /\ lk_done)
      => /\ lk_out.ok = (lk_fault = NoFault)
         /\ lk_out.ok
              => /\ (lk_out.spender = 0) = (Spenders = {})
                 /\ Spenders # {} => lk_out.spender = lk_txs[FirstSpender].txid

\* a 'receive' entry of a transaction that spends the outpoint is listed
\* before the 'send' entry of another transaction that spends it
C18_Witness ==
    /\ lk_fn = "get_spender_txid"
    /\ lk_done
    /\ Len(lk_txs) > 1
    /\ lk_txs[1].category = "receive"
    /\ OutPoint(lk_spent) \in lk_vin[lk_txs[1].txid]
    /\ lk_txs[1].txid # lk_txs[Len(lk_txs)].txid
    /\ Spenders = {Len(lk_txs)}
    /\ lk_out.ok
    /\ lk_out.spender = lk_txs[Len(lk_txs)].txid


\* the steps of the Shutdown arm, in the order of the code
ShutdownSteps == <<"send_shutdown", "join_jsonrpc", "join_bitcoind">>

(***************************************************************************)
(* C19: on Shutdown the hub sends Shutdown to the bitcoind thread, then    *)
(* joins the control thread, then joins the bitcoind thread, and only then *)
(* exits with status 0: the steps it has completed are always a prefix of  *)
(* that order, and the process has left through this arm only with all     *)
(* three completed and both threads ended.                                 *)
(***************************************************************************)
C19_ShutdownOrder ==
    /\ Len(hub_done) <= Len(ShutdownSteps)
    /\ hub_done = SubSeq(ShutdownSteps, 1, Len(hub_done))
    /\ hub_done # << >> => current.type = "Shutdown"
    /\ hub_pc = "exit_ok" => hub_done = ShutdownSteps
    /\ exit_by = "shutdown"
         => /\ exit_status = 0
            /\ hub_done = ShutdownSteps
            /\ jsonrpc_thread = "finished"
            /\ bitcoind_thread = "finished"
            /\ bitcoind_queue = << >>

\* the process left through the Shutdown arm after it served another request
C19_Witness ==
    /\ exit_by = "shutdown"
    /\ exit_status = 0
    /\ Len(served) > 1
    /\ answered # << >>

\* the operation the hub is about to make fails: a send to a thread that
\* dropped its receiver, a receive from a dropped sender, the join of a
\* thread that panicked
HubOpFails ==
    \/ hub_pc \in {"shutdown_send", "getinfo_send"} /\ bitcoind_thread # "running"
    \/ hub_pc = "getinfo_recv" /\ bitrep = "dropped"
    \/ hub_pc \in {"getinfo_reply", "listvaults_reply"} /\ jsonrpc_thread # "running"
    \/ hub_pc = "join_jsonrpc" /\ jsonrpc_thread = "panicked"
    \/ hub_pc = "join_bitcoind" /\ bitcoind_thread = "panicked"

(***************************************************************************)
(* C20: a step of the hub whose channel operation or join fails ends the   *)
(* process with exit status 1, and answers nothing; once the process has   *)
(* exited the hub dequeues and answers no request.                         *)
(***************************************************************************)
C20_HubFailureIsFatal ==
    [][/\ (Running /\ HubOpFails /\ hub_pc' # hub_pc)
            => /\ exit_status' = 1
               /\ exit_by' = "hub_failure"
               /\ UNCHANGED <<served, answered>>
       /\ ~Running => UNCHANGED <<hub_pc, served, answered, exit_status>>]_vars

\* the reply to a listvaults request could not be sent: the control thread
\* had panicked
C20_Witness ==
    /\ exit_by = "hub_failure"
    /\ exit_status = 1
    /\ current.type = "ListVaults"
    /\ jsonrpc_thread = "panicked"


\* the SyncProgress requests the bitcoind thread has not taken yet
PendingSyncProgress ==
    {k \in DOMAIN bitcoind_queue : bitcoind_queue[k] = "SyncProgress"}

(***************************************************************************)
(* C21: a SyncProgress request is a synchronous call.  While its reply     *)
(* channel waits for the answer the hub stays at its recv; the hub takes   *)
(* the one reply before it goes on, so that past the recv no request and   *)
(* no reply is left; and it answers a GetInfo only from there: at most one *)
(* SyncProgress is ever outstanding, and every GetInfo answered had its    *)
(* reply taken first.                                                      *)
(***************************************************************************)
C21_SyncProgressIsSynchronous ==
    /\ Cardinality(PendingSyncProgress) <= 1
    /\ PendingSyncProgress # {} => bitrep = "waiting"
    /\ (Running /\ bitrep \in {"waiting", "replied"})
         => (hub_pc = "getinfo_recv" /\ current.type = "GetInfo")
    /\ (bitrep = "waiting" /\ bitcoind_thread = "running") => PendingSyncProgress # {}
    /\ hub_pc \in {"getinfo_db", "getinfo_reply"}
         => (bitrep = "none" /\ PendingSyncProgress = {} /\ current.type = "GetInfo")
    /\ hub_pc = "recv" => bitrep = "none"

\* after it answered an earlier request, the hub took the reply of a
\* SyncProgress request and is about to answer the GetInfo
C21_Witness ==
    /\ hub_pc = "getinfo_reply"
    /\ Len(answered) = 1
    /\ Len(served) = 2
    /\ bitrep = "none"
    /\ bitcoind_thread = "running"

(***************************************************************************)
(* C25: a transition requested on a vault whose current status is not the  *)
(* required predecessor status returns InvalidStatus naming the current    *)
(* and the required status, and leaves the vault map, hence the status,    *)
(* the timestamp and the attached transactions of the vault, unchanged.    *)
(***************************************************************************)
C25_StatusConflictLeavesVault ==
    [][LET c == vt_result'.call IN
       (c.outpoint # 0 /\ vaults[c.outpoint] # NoVault
          /\ vaults[c.outpoint].status # c.required)
         => /\ vt_result'.result =
                 [ok |-> FALSE, error |-> "InvalidStatus",
                  current |-> vaults[c.outpoint].status, required |-> c.required]
            /\ vaults' = vaults]_vars

\* a revocation is requested again on a vault that is already secured
C25_Witness ==
    /\ vt_result.call.outpoint # 0
    /\ vt_result.call.required = "funded"
    /\ vt_result.result.error = "InvalidStatus"
    /\ vaults[vt_result.call.outpoint].status = "secured"
    /\ vaults[vt_result.call.outpoint].updated_at = 3
    /\ vaults[vt_result.call.outpoint].txs # {}

(***************************************************************************)
(* C23: once the threads are spawned every request to the node is issued   *)
(* by the bitcoind thread: the hub and the control thread never have one   *)
(* in flight, the hub gets the sync progress through a message to the      *)
(* bitcoind thread, and at most one request is in flight at any time.      *)
(***************************************************************************)
C23_OnlySyncEngineCallsNode ==
    /\ node_rpcs \subseteq {"bitcoind"}
    /\ Cardinality(node_rpcs) <= 1
    /\ (Running /\ node_rpcs # {}) => bitcoind_thread = "running"
    /\ (Running /\ hub_pc = "getinfo_recv" /\ bitcoind_thread = "running")
         => (bitrep = "replied" \/ PendingSyncProgress # {})

\* the hub waits for the sync progress while the bitcoind thread has a
\* request to the node in flight
C23_Witness ==
    /\ node_rpcs = {"bitcoind"}
    /\ hub_pc = "getinfo_recv"
    /\ bitrep = "waiting"
    /\ PendingSyncProgress # {}

\* the vault at outpoint i passes the filters of the ListVaults handled: its
\* status is the one asked for, its outpoint is one of those asked for
PassesFilters(i) ==
    /\ vaults[i] # NoVault
    /\ lv_filter.status # "none" => vaults[i].status = lv_filter.status
    /\ lv_filter.outpoints.some => i \in lv_filter.outpoints.of

(***************************************************************************)
(* C24: the reply of ListVaults holds an entry for exactly the vaults of   *)
(* the map that pass both filters, the outpoint filter comparing the whole *)
(* deposit outpoint, and for every vault when no filter is given.          *)
(***************************************************************************)
C24_ListVaultsReplyIsFiltered ==
    hub_pc = "listvaults_reply"
      => lv_reply = {ListVaultsEntry(i, vaults[i]) :
                       i \in {j \in OutpointIds : PassesFilters(j)}}

(***************************************************************************)
(* Properties of the reconciliations against any answer of the node.       *)
(***************************************************************************)
\* how the call on the answer ended
CallOutcome ==
    IF pc = "failed" THEN "error"
    ELSE IF pc = "panicked" THEN "panic"
    ELSE IF pc \in {"synced", "unv_synced"} THEN "ok"
    ELSE "none"

\* the entry lacks one of the fields, or carries it with the wrong type
Defective(e, fields) == \E f \in fields : ~has_valid(e, f)

\* the answer holds an entry of the call's label that lacks a field the call
\* reads from it: confirmations and outpoint of every entry of its label,
\* for sync_deposits also address and amount of a deposit it does not know
BadEntryOfCall ==
    \/ /\ pc \in {"synced", "failed"}
       /\ \E k \in DOMAIN node_answer :
            LET e == node_answer[k] IN
            /\ e.label = DEPOSIT_UTXOS_LABEL
            /\ \/ Defective(e, {"confirmations", "txid", "vout"})
               \/ /\ outpoint_from_utxo(e) \notin DOMAIN deposits_utxos
                  /\ Defective(e, {"address", "amount"})
    \/ /\ pc \in {"unv_synced", "panicked"}
       /\ \E k \in DOMAIN node_answer :
            LET e == node_answer[k] IN
            /\ e.label = UNVAULT_UTXOS_LABEL
            /\ Defective(e, {"confirmations", "txid", "vout"})

(***************************************************************************)
(* C26: a call of sync_deposits or sync_unvaults on an answer with an      *)
(* entry that lacks an expected field, or carries it with the wrong type,  *)
(* returns an error to its caller: it returns no delta and does not end    *)
(* any other way.                                                          *)
(***************************************************************************)
C26_ApiBreakIsAnError ==
    (CallOutcome # "none" /\ BadEntryOfCall)
      => /\ CallOutcome = "error"
         /\ deposits_state \in {NoDelta, ApiBreak}
         /\ unvaults_state = NoUnvaultsState

HasDepositLabel(e) == e.label = DEPOSIT_UTXOS_LABEL
HasUnvaultLabel(e) == e.label = UNVAULT_UTXOS_LABEL

(***************************************************************************)
(* C27: the entries of the answer that do not carry the label of the call, *)
(* those without any label included, change nothing: the call returns what *)
(* it returns on the answer without them.                                  *)
(***************************************************************************)
C27_OtherLabelsAreIgnored ==
    /\ pc \in {"synced", "failed"}
         => deposits_state = sync_deposits(deposits_utxos, min_conf,
                                           SelectSeq(node_answer, HasDepositLabel))
    /\ pc \in {"unv_synced", "panicked"}
         => unvaults_state = sync_unvaults(unvault_utxos,
                                           SelectSeq(node_answer, HasUnvaultLabel))

\* the outpoints of the wallet's unspent outputs that carry the label
ListedWith(label) == {OutPoint(i) : i \in {j \in DOMAIN wallet : wallet[j].label = label}}

\* the outpoints a DepositsState or an UnvaultsState reports
ReportedByDeposits ==
    DOMAIN deposits_state.new_unconf \cup DOMAIN deposits_state.new_conf
        \cup DOMAIN deposits_state.new_spent
ReportedByUnvaults == DOMAIN unvaults_state.new_conf \cup DOMAIN unvaults_state.new_spent

AnswerDeposits ==
    {outpoint_from_utxo(node_answer[k]) :
        k \in {j \in DOMAIN node_answer : node_answer[j].label = DEPOSIT_UTXOS_LABEL}}

(***************************************************************************)
(* C30: whatever the known map and the answer of the node, once the delta  *)
(* a call of sync_deposits returned is applied (new_unconf added,          *)
(* new_spent removed), the keys of the known map are exactly the outpoints *)
(* of the deposit-labelled entries of the answer.                          *)
(***************************************************************************)
C30_NoUtxoLostOrDoubled ==
    pc = "synced"
      => /\ (DOMAIN deposits_utxos \cup DOMAIN deposits_state.new_unconf)
               \ DOMAIN deposits_state.new_spent = AnswerDeposits
         /\ DOMAIN deposits_state.new_unconf \cap DOMAIN deposits_utxos = {}
         /\ DOMAIN deposits_state.new_spent \subseteq DOMAIN deposits_utxos

\* a call that finds a deposit it did not know and misses one it knew
C30_Witness ==
    /\ pc = "synced"
    /\ deposits_state.new_unconf # EmptyMap
    /\ deposits_state.new_spent # EmptyMap
    /\ DOMAIN deposits_utxos # {}
    /\ AnswerDeposits # {}

(***************************************************************************)
(* C31: while the node's unspent list stays the same and the caller        *)
(* applies each delta to its known map, the third consecutive call of      *)
(* sync_deposits, and every later one, returns an empty delta, whatever    *)
(* the known map the first of these calls started from.                    *)
(***************************************************************************)
C31_FixpointInTwoPasses ==
    (pc = "synced" /\ passes >= 3)
      => /\ deposits_state.new_unconf = EmptyMap
         /\ deposits_state.new_conf = EmptyMap
         /\ deposits_state.new_spent = EmptyMap

\* a third call after the second one still promoted a deposit, the first
\* one having started from a known map the node had moved away from
C31_Witness ==
    /\ pc = "synced"
    /\ passes = 3
    /\ prev_state.new_conf # EmptyMap
    /\ DOMAIN deposits_utxos # {}
    /\ \E o \in DOMAIN deposits_utxos : deposits_utxos[o].is_confirmed

(***************************************************************************)
(* C32: the process ends with exit status 0 only through the Shutdown arm: *)
(* Shutdown was dequeued by the hub and delivered to the bitcoind thread,  *)
(* and both worker threads were joined before the exit; the hub does not   *)
(* end with status 0 because the control thread dropped rpc_tx.            *)
(***************************************************************************)
C32_ExitZeroOnlyByShutdown ==
    exit_status = 0
      => /\ current.type = "Shutdown"
         /\ hub_done = ShutdownSteps
         /\ jsonrpc_thread = "finished"
         /\ bitcoind_thread = "finished"

(***************************************************************************)
(* C33: the hub serves the control requests one at a time, in the order    *)
(* they were sent: it dequeues a request only when every request dequeued  *)
(* before has had its reply, a reply goes to the request dequeued last and *)
(* is its only one, and once Shutdown is dequeued the hub dequeues and     *)
(* answers nothing more, whatever is queued behind it.                     *)
(***************************************************************************)
C33_RequestsServedInOrder ==
    [][/\ \A k \in DOMAIN served' : served'[k] = k
       /\ served' # served
            => /\ answered = served
               /\ current.type # "Shutdown"
               /\ served' = Append(served, Head(rpc_queue).id)
       /\ answered' # answered
            => /\ current.type \in {"GetInfo", "ListVaults"}
               /\ answered' = Append(answered, current.id)
               /\ answered' = served
               /\ served' = served
       /\ current.type = "Shutdown" => UNCHANGED <<served, answered>>]_vars

\* the process left through the Shutdown arm after it answered an earlier
\* request, with a request still queued behind the Shutdown
C33_Witness ==
    /\ exit_by = "shutdown"
    /\ current.type = "Shutdown"
    /\ answered # << >>
    /\ rpc_queue # << >>
    /\ Len(served) = Len(answered) + 1

(***************************************************************************)
(* C34: a call of make_request or make_requests whose every send returns   *)
(* ends, with a result or with an error, whatever the kinds of the         *)
(* failures and the times the sends take: a retry is made only on a        *)
(* failure of a retried kind observed within the window of that kind, and  *)
(* no send is made later than 46s after the start of the call.             *)
(***************************************************************************)
C34_RetryLoopTerminates ==
    /\ <>(rpc_pc \in {"returned", "failed"})
    /\ [][(rpc_pc = "handle" /\ rpc_pc' = "send")
            => /\ pending \in RetriedKinds
               /\ clock - start <= WindowOf(pending)]_vars
    /\ [](rpc_pc = "send" => clock - start <= TRANSPORT_WINDOW_MS + TRANSPORT_SLEEP_MS)

\* a call that gave up on a failure observed after the 45s window, having
\* retried until then
C34_Witness ==
    /\ rpc_pc = "failed"
    /\ clock - start > TRANSPORT_WINDOW_MS
    /\ first_err_at >= 0
    /\ retry_at >= TRANSPORT_WINDOW_MS - MaxSendTicks * TickMs

(***************************************************************************)
(* C36: a bulk import of several descriptors returns Ok only when the node *)
(* reported success for every descriptor of the request; when the node     *)
(* reports a failure for any descriptor, whatever its position, the import *)
(* returns an error.                                                       *)
(***************************************************************************)
C36_ImportSucceedsOnlyIfAllDo ==
    imp_pc = "returned"
      => (imp_out.ok <=> /\ imp_answer.ok
                         /\ Len(imp_answer.results) = imp_args.descriptors
                         /\ \A k \in DOMAIN imp_answer.results :
                              imp_answer.results[k].success)

\* the steps at which the hub is in, or about to make, a channel operation:
\* the receive of the next request, a send to the bitcoind thread, the
\* receive of its rendezvous reply, a send of a reply to the control thread
HubChannelSteps ==
    {"recv", "shutdown_send", "getinfo_send", "getinfo_recv", "getinfo_reply",
     "listvaults_reply"}

HubHoldsLock == vault_lock.writer = "hub" \/ "hub" \in vault_lock.readers

(***************************************************************************)
(* C35: the hub holds no guard of the lock around the shared vault state   *)
(* at a channel operation, and while it holds one its next step needs no   *)
(* other thread; a bitcoind thread that waits for the lock, or that the    *)
(* hub waits for on the rendezvous channel, is therefore never waiting for *)
(* a hub that waits for it.                                                *)
(***************************************************************************)
C35_NoLockHeldAcrossChannelOps ==
    /\ hub_pc \in HubChannelSteps => ~HubHoldsLock
    /\ (Running /\ HubHoldsLock)
         => ENABLED (\E status \in StatusFilters, outpoints \in OutpointFilters :
                       HubListVaultsRead(status, outpoints))
    /\ (Running /\ hub_pc = "getinfo_recv" /\ bitrep = "waiting"
          /\ bitcoind_thread = "running")
         => ENABLED (EngTake \/ NodeRpcEnd("bitcoind"))

\* the hub built the reply of a ListVaults under its read guard and is about
\* to send it, while the bitcoind thread reads the shared state
C35_Witness ==
    /\ hub_pc = "listvaults_reply"
    /\ lv_reply # {}
    /\ "bitcoind" \in vault_lock.readers
    /\ jsonrpc_thread = "running"

====
